---- MODULE Spec2Model ----
(***************************************************************************)
(* A model of py2binmod: annotation resolution (parser/traits.rs), file    *)
(* analysis (parser/ast_analyzer.rs), project assembly (parser/mod.rs,     *)
(* parser/layout_resolver.rs), shim synthesis (codegen/lib_rs.rs) and the  *)
(* marshaling boundary of the emitted unit.                                *)
(***************************************************************************)
EXTENDS Integers, Sequences, FiniteSets

VARIABLES
    pc,          \* position of the operation under study
    annotation,  \* the annotation expression handed to ParameterType::try_from_ast
    resolved,    \* its result
    file,        \* the source file handed to AstAnalyzer::analyze_file
    analysis,    \* its result
    ptype,       \* the ParameterType a value crosses the boundary at
    native,      \* the native value handed to rs_to_py
    py_obj,      \* the interpreter object rs_to_py returned
    deserialized, \* the native value py_to_rs returned
    project,     \* the tree, the directory and the options parse_project is run on
    stack,       \* FileWalker::walk: the directories still to read
    files,       \* FileWalker::walk: the files found so far
    context,     \* the result of parse_project
    previous,    \* the result of the run before, once the assembly is run again
    unit,        \* the unit LibRsGenerator::generate emitted
    INTERPRETER, \* the emitted unit at run time: the thread-local interpreter slots
    call         \* the emitted unit at run time: the call each worker is in

resolveVars == <<annotation, resolved>>
analyzeVars == <<file, analysis>>
marshalVars == <<ptype, native, py_obj, deserialized>>

projectVars == <<project, stack, files, context, previous, unit>>

runtimeVars == <<INTERPRETER, call>>

vars == <<pc, resolveVars, analyzeVars, marshalVars, projectVars, runtimeVars>>

\* the value of a variable the specification at hand does not use
Unused == "unused"

ResolveUnused == annotation = Unused /\ resolved = Unused
AnalyzeUnused == file = Unused /\ analysis = Unused
MarshalUnused ==
    ptype = Unused /\ native = Unused /\ py_obj = Unused /\ deserialized = Unused
ProjectUnused ==
    /\ project = Unused /\ stack = Unused /\ files = Unused
    /\ context = Unused /\ previous = Unused /\ unit = Unused
RuntimeUnused == INTERPRETER = Unused /\ call = Unused

(***************************************************************************)
(* Result<T, Error> and Option<T>                                          *)
(***************************************************************************)
Ok(v) == [ok |-> TRUE, val |-> v]
Err(msg) == [ok |-> FALSE, err |-> msg]
Some(v) == [some |-> TRUE, val |-> v]
NoneOpt == [some |-> FALSE]

\* the `?` operator and Result::and_then: the error is returned, else F goes on
AndThen(r, F(_)) == IF r.ok THEN F(r.val) ELSE r

(***************************************************************************)
(* types.rs: enum ParameterType                                            *)
(***************************************************************************)
String == [t |-> "String"]
Integer == [t |-> "Integer"]
Float == [t |-> "Float"]
Boolean == [t |-> "Boolean"]
List(item) == [t |-> "List", item |-> item]
Tuple(items) == [t |-> "Tuple", items |-> items]
Map(k, v) == [t |-> "Map", key_type |-> k, value_type |-> v]
Optional(inner) == [t |-> "Optional", inner |-> inner]
None == [t |-> "None"]
Any == [t |-> "Any"]

(***************************************************************************)
(* The annotation expressions of the syntax tree (ruff_python_ast::Expr)   *)
(* that try_from_ast dispatches on.  An identifier never holds a dot: a    *)
(* dotted name is an Attribute chain.                                      *)
(***************************************************************************)
Name(id) == [kind |-> "Name", id |-> id]
Attribute(value, attr) == [kind |-> "Attribute", value |-> value, attr |-> attr]
BinOp(op, l, r) == [kind |-> "BinOp", op |-> op, left |-> l, right |-> r]
Subscript(value, slice) == [kind |-> "Subscript", value |-> value, slice |-> slice]
TupleExpr(elts) == [kind |-> "Tuple", elts |-> elts]
NoneLiteral == [kind |-> "NoneLiteral"]
EllipsisLiteral == [kind |-> "EllipsisLiteral"]
CallExpr(func, args, keywords) ==
    [kind |-> "Call", func |-> func, args |-> args, keywords |-> keywords]
Keyword(arg, value) == [arg |-> arg, value |-> value]
StringLiteral(value) == [kind |-> "StringLiteral", value |-> value]

(***************************************************************************)
(* str::replace(pat, ""): every non-overlapping occurrence, left to right  *)
(***************************************************************************)
StartsWith(s, p) == Len(s) >= Len(p) /\ SubSeq(s, 1, Len(p)) = p

RECURSIVE Remove(_, _)
Remove(s, p) ==
    IF Len(s) = 0 THEN s
    ELSE IF StartsWith(s, p) THEN Remove(SubSeq(s, Len(p) + 1, Len(s)), p)
    ELSE SubSeq(s, 1, 1) \o Remove(SubSeq(s, 2, Len(s)), p)

(***************************************************************************)
(* parser/traits.rs: impl TryFromAst for ParameterType                     *)
(***************************************************************************)
normalize_ident(name) ==
    CASE name \in {"int", "builtins.int"} -> "int"
      [] name \in {"float", "builtins.float"} -> "float"
      [] name \in {"str", "builtins.str"} -> "str"
      [] name \in {"bool", "builtins.bool"} -> "bool"
      [] name \in {"None", "NoneType"} -> "None"
      [] OTHER -> name

RECURSIVE parse_name(_)
parse_name(expr) ==
    CASE expr.kind = "Name" -> Some(expr.id)
      [] expr.kind = "Attribute" ->
            LET head == parse_name(expr.value)
            IN  IF head.some THEN Some(head.val \o "." \o expr.attr) ELSE NoneOpt
      [] OTHER -> NoneOpt

parse_subscript_whole_slice(expr) ==
    LET base == parse_name(expr.value)
    IN  IF ~base.some THEN Err("Unsupported subscript base expression")
        ELSE Ok([base |-> base.val, args |-> <<expr.slice>>])

parse_subscript(expr) ==
    LET base == parse_name(expr.value)
    IN  IF ~base.some THEN Err("Unsupported subscript base expression")
        ELSE Ok([base |-> base.val,
                 args |-> IF expr.slice.kind = "Tuple" THEN expr.slice.elts
                          ELSE <<expr.slice>>])

base_normalized(base) == Remove(Remove(base, "typing."), "collections.abc.")

resolve_name_strict(id) ==
    LET n == normalize_ident(id)
    IN  CASE n = "int" -> Ok(Integer)
          [] n = "float" -> Ok(Float)
          [] n = "str" -> Ok(String)
          [] n = "bool" -> Ok(Boolean)
          [] n = "None" -> Ok(None)
          [] OTHER -> Err("Unsupported type annotation expression")

resolve_name(id) ==
    LET n == normalize_ident(id)
    IN  CASE n = "int" -> Ok(Integer)
          [] n = "float" -> Ok(Float)
          [] n = "str" -> Ok(String)
          [] n = "bool" -> Ok(Boolean)
          [] n = "None" -> Ok(None)
          [] OTHER -> Ok(Any)

union_of_left_only(left, right) ==
    IF right = None THEN Ok(Optional(left))
    ELSE IF left = None THEN Ok(Optional(left))
    ELSE Err("Only Optional unions supported (T | None)")

union_of(left, right) ==
    IF right = None THEN Ok(Optional(left))
    ELSE IF left = None THEN Ok(Optional(right))
    ELSE Err("Only Optional unions supported (T | None)")

RECURSIVE try_from_ast(_)
RECURSIVE collect_types(_)

\* args.iter().map(try_from_ast).collect::<Result<Vec<_>, _>>(): the first error wins
collect_types(args) ==
    IF Len(args) = 0 THEN Ok(<<>>)
    ELSE AndThen(try_from_ast(Head(args)), LAMBDA first :
         AndThen(collect_types(Tail(args)), LAMBDA rest :
         Ok(<<first>> \o rest)))

parse_union(expr) ==
    AndThen(try_from_ast(expr.left), LAMBDA left :
    AndThen(try_from_ast(expr.right), LAMBDA right :
    union_of(left, right)))

resolve_binop(expr) ==
    IF expr.op = "BitOr" THEN parse_union(expr)
    ELSE Err("Unsupported binary operation in type annotation")

\* the match on base_normalized
subscript_arm(base, args) ==
    CASE base \in {"list", "List"} ->
            IF Len(args) = 0 THEN Err("Missing type argument for List")
            ELSE AndThen(try_from_ast(args[1]), LAMBDA item : Ok(List(item)))
      [] base \in {"dict", "Dict", "Mapping"} ->
            IF Len(args) # 2
            THEN Err("Dict type annotation requires two type arguments")
            ELSE AndThen(try_from_ast(args[1]), LAMBDA k :
                 AndThen(try_from_ast(args[2]), LAMBDA v :
                 Ok(Map(k, v))))
      [] base \in {"tuple", "Tuple"} ->
            AndThen(collect_types(args), LAMBDA items : Ok(Tuple(items)))
      [] base = "Optional" ->
            IF Len(args) = 0 THEN Err("Missing type argument for Optional")
            ELSE AndThen(try_from_ast(args[1]), LAMBDA inner : Ok(Optional(inner)))
      [] OTHER -> Ok(Any)

resolve_subscript(sub) ==
    AndThen(parse_subscript(sub), LAMBDA parsed :
    subscript_arm(base_normalized(parsed.base), parsed.args))

try_from_ast(expr) ==
    CASE expr.kind = "Name" -> resolve_name(expr.id)
      [] expr.kind = "BinOp" -> resolve_binop(expr)
      [] expr.kind = "Subscript" -> resolve_subscript(expr)
      [] expr.kind = "NoneLiteral" -> Ok(None)
      [] OTHER -> Err("Unsupported type annotation expression")

(***************************************************************************)
(* Statements of the syntax tree (ruff_python_ast::Stmt).  A parameter     *)
(* holds an optional annotation, a function an optional return annotation. *)
(***************************************************************************)
Param(name, annotation_) == [name |-> name, annotation |-> annotation_]
FunctionDef(name, decorator_list, parameters, returns, body) ==
    [kind |-> "FunctionDef", name |-> name, decorator_list |-> decorator_list,
     parameters |-> parameters, returns |-> returns, body |-> body]
ClassDef(name, decorator_list, body) ==
    [kind |-> "ClassDef", name |-> name, decorator_list |-> decorator_list,
     body |-> body]
ExprStmt(value) == [kind |-> "Expr", value |-> value]
PassStmt == [kind |-> "Pass"]
IfStmt(body) == [kind |-> "If", body |-> body]

(***************************************************************************)
(* parser/traits.rs: impl TryFromAst for Parameter, ModuleFunction,        *)
(* HostFunction                                                            *)
(***************************************************************************)
Parameter_try_from_ast_defaulting(expr) ==
    IF ~expr.annotation.some
    THEN Ok([name |-> expr.name, type_hint |-> Any])
    ELSE AndThen(try_from_ast(expr.annotation.val), LAMBDA type_hint :
         Ok([name |-> expr.name, type_hint |-> type_hint]))

Parameter_try_from_ast(expr) ==
    IF ~expr.annotation.some
    THEN Err("Missing type annotation for parameter " \o expr.name)
    ELSE AndThen(try_from_ast(expr.annotation.val), LAMBDA type_hint :
         Ok([name |-> expr.name, type_hint |-> type_hint]))

RECURSIVE collect_parameters(_)
collect_parameters(parameters) ==
    IF Len(parameters) = 0 THEN Ok(<<>>)
    ELSE AndThen(Parameter_try_from_ast(Head(parameters)), LAMBDA first :
         AndThen(collect_parameters(Tail(parameters)), LAMBDA rest :
         Ok(<<first>> \o rest)))

return_annotation(expr, what) ==
    IF ~expr.returns.some
    THEN Err("Missing return type annotation for " \o what \o " " \o expr.name)
    ELSE try_from_ast(expr.returns.val)

docstring_of(expr) ==
    IF /\ Len(expr.body) > 0
       /\ expr.body[1].kind = "Expr"
       /\ expr.body[1].value.kind = "StringLiteral"
    THEN Some(expr.body[1].value.value)
    ELSE NoneOpt

ModuleFunction_try_from_ast(expr) ==
    AndThen(collect_parameters(expr.parameters), LAMBDA parameters :
    AndThen(return_annotation(expr, "function"), LAMBDA return_type :
    Ok([name |-> expr.name,
        docstring |-> docstring_of(expr),
        parameters |-> parameters,
        return_type |-> return_type])))

HostFunction_try_from_ast(expr) ==
    AndThen(collect_parameters(expr.parameters), LAMBDA parameters :
    AndThen(return_annotation(expr, "host function"), LAMBDA return_type :
    Ok([name |-> expr.name,
        parameters |-> parameters,
        return_type |-> return_type])))

(***************************************************************************)
(* parser/ast_analyzer.rs: AstAnalyzer                                     *)
(***************************************************************************)
\* the same test with the bare name as the only form recognised
is_decorator_name_bare_only(decorator, name) ==
    decorator.kind = "Name" /\ decorator.id = name

is_decorator_name(decorator, name) ==
    CASE decorator.kind = "Name" -> decorator.id = name
      [] decorator.kind = "Attribute" -> decorator.attr = name
      [] decorator.kind = "Call" ->
            CASE decorator.func.kind = "Name" -> decorator.func.id = name
              [] decorator.func.kind = "Attribute" -> decorator.func.attr = name
              [] OTHER -> FALSE
      [] OTHER -> FALSE

\* has_func_decorator and has_class_decorator
has_decorator(def, name) ==
    \E i \in 1..Len(def.decorator_list) : is_decorator_name(def.decorator_list[i], name)

get_decorator_args(decorator) ==
    IF decorator.kind = "Call"
    THEN Some([args |-> decorator.args, keywords |-> decorator.keywords])
    ELSE NoneOpt

\* Arguments::find_argument_value: the keyword of that name, else the positional
find_argument_value(arguments, name, position) ==
    LET named == {i \in 1..Len(arguments.keywords) : arguments.keywords[i].arg = name}
    IN  IF named # {}
        THEN Some(arguments.keywords[CHOOSE i \in named : \A j \in named : i <= j].value)
        ELSE IF position + 1 <= Len(arguments.args)
             THEN Some(arguments.args[position + 1])
             ELSE NoneOpt

\* the same with the default namespace in the place of the error
host_fns_namespace_defaulting(class) ==
    LET marked == {i \in 1..Len(class.decorator_list) :
                       is_decorator_name(class.decorator_list[i], "host_fns")}
    IN  IF marked = {} THEN Err("Decorator not found")
        ELSE LET decorator == class.decorator_list[
                                  CHOOSE i \in marked : \A j \in marked : i <= j]
                 arguments == get_decorator_args(decorator)
                 value == IF arguments.some
                          THEN find_argument_value(arguments.val, "namespace", 0)
                          ELSE NoneOpt
             IN  IF value.some /\ value.val.kind = "StringLiteral"
                 THEN Ok(value.val.value)
                 ELSE Ok("env")

host_fns_namespace(class) ==
    LET marked == {i \in 1..Len(class.decorator_list) :
                       is_decorator_name(class.decorator_list[i], "host_fns")}
    IN  IF marked = {} THEN Err("Decorator not found")
        ELSE LET decorator == class.decorator_list[
                                  CHOOSE i \in marked : \A j \in marked : i <= j]
                 arguments == get_decorator_args(decorator)
                 value == IF arguments.some
                          THEN find_argument_value(arguments.val, "namespace", 0)
                          ELSE NoneOpt
             IN  IF value.some /\ value.val.kind = "StringLiteral"
                 THEN Ok(value.val.value)
                 ELSE Err("Missing 'namespace' argument in host_fns decorator")

RECURSIVE collect_host_functions(_, _)
collect_host_functions(body, host_functions) ==
    IF Len(body) = 0 THEN Ok(host_functions)
    ELSE IF Head(body).kind = "FunctionDef" /\ has_decorator(Head(body), "host_fn")
         THEN AndThen(HostFunction_try_from_ast(Head(body)), LAMBDA f :
              collect_host_functions(Tail(body), Append(host_functions, f)))
         ELSE collect_host_functions(Tail(body), host_functions)

parse_host_fns_class(class) ==
    AndThen(host_fns_namespace(class), LAMBDA namespace :
    AndThen(collect_host_functions(class.body, <<>>), LAMBDA host_functions :
    IF Len(host_functions) = 0 THEN Ok(NoneOpt)
    ELSE Ok(Some([namespace |-> namespace, functions |-> host_functions]))))

\* a loop that also visits the bodies of functions, conditionals and classes
RECURSIVE analyze_stmts_descending(_, _, _)
analyze_stmts_descending(stmts, module_functions, host_functions) ==
    IF Len(stmts) = 0
    THEN Ok([module_functions |-> module_functions, host_functions |-> host_functions])
    ELSE CASE Head(stmts).kind = "FunctionDef" /\ has_decorator(Head(stmts), "mod_fn") ->
                AndThen(ModuleFunction_try_from_ast(Head(stmts)), LAMBDA f :
                analyze_stmts_descending(Head(stmts).body \o Tail(stmts),
                                         Append(module_functions, f), host_functions))
           [] Head(stmts).kind = "ClassDef" /\ has_decorator(Head(stmts), "host_fns") ->
                AndThen(parse_host_fns_class(Head(stmts)), LAMBDA h :
                analyze_stmts_descending(Tail(stmts), module_functions,
                                         IF h.some THEN h ELSE host_functions))
           [] Head(stmts).kind \in {"FunctionDef", "ClassDef", "If"} ->
                analyze_stmts_descending(Head(stmts).body \o Tail(stmts),
                                         module_functions, host_functions)
           [] OTHER -> analyze_stmts_descending(Tail(stmts), module_functions,
                                                host_functions)

\* the loop of analyze_file over the top-level statements
RECURSIVE analyze_stmts(_, _, _)
analyze_stmts(stmts, module_functions, host_functions) ==
    IF Len(stmts) = 0
    THEN Ok([module_functions |-> module_functions, host_functions |-> host_functions])
    ELSE CASE Head(stmts).kind = "FunctionDef" /\ has_decorator(Head(stmts), "mod_fn") ->
                AndThen(ModuleFunction_try_from_ast(Head(stmts)), LAMBDA f :
                analyze_stmts(Tail(stmts), Append(module_functions, f), host_functions))
           [] Head(stmts).kind = "ClassDef" /\ has_decorator(Head(stmts), "host_fns") ->
                AndThen(parse_host_fns_class(Head(stmts)), LAMBDA h :
                analyze_stmts(Tail(stmts), module_functions,
                              IF h.some THEN h ELSE host_functions))
           [] OTHER -> analyze_stmts(Tail(stmts), module_functions, host_functions)

\* Path::file_stem of a file name: the name without its last extension
RECURSIVE LastDot(_)
LastDot(name) ==
    IF Len(name) = 0 THEN 0
    ELSE IF SubSeq(name, Len(name), Len(name)) = "." THEN Len(name)
    ELSE LastDot(SubSeq(name, 1, Len(name) - 1))

file_stem(name) ==
    IF LastDot(name) <= 1 THEN name ELSE SubSeq(name, 1, LastDot(name) - 1)

\* Path::extension of a file name: "" when it has none
extension(name) ==
    IF LastDot(name) <= 1 THEN "" ELSE SubSeq(name, LastDot(name) + 1, Len(name))

\* A source file: its path (a sequence of components), whether its content
\* parses, and the parsed suite.
SourceFile(path, parses, suite) ==
    [path |-> path, kind |-> "file", parses |-> parses, suite |-> suite]

analyze_file(f) ==
    IF ~f.parses THEN Err("Failed to parse Python module")
    ELSE AndThen(analyze_stmts(f.suite, <<>>, NoneOpt), LAMBDA found :
         IF Len(found.module_functions) = 0 /\ ~found.host_functions.some
         THEN Ok(NoneOpt)
         ELSE Ok(Some([name |-> file_stem(f.path[Len(f.path)]),
                       file_path |-> f.path,
                       module_functions |-> found.module_functions,
                       host_functions |-> found.host_functions])))

(***************************************************************************)
(* The annotations the resolver is applied to: atoms, binary operations    *)
(* and subscripts over them, with one more level of nesting in operands    *)
(* and bracketed arguments.                                                *)
(***************************************************************************)
MaxArgs == 2

SeqsUpTo(S, n) == UNION {[1..k -> S] : k \in 0..n}

BuiltinIdents == {"int", "float", "str", "bool"}

Atoms ==
    {Name(i) : i \in BuiltinIdents \cup {"NoneType", "Foo"}}
    \cup {NoneLiteral, EllipsisLiteral}
    \cup {Attribute(Name("builtins"), i) : i \in BuiltinIdents}

Bases ==
    {Name(b) : b \in {"list", "List", "dict", "Dict", "Mapping",
                       "tuple", "Tuple", "Optional", "Foo"}}
    \cup {Attribute(Name("typing"), b) :
              b \in {"List", "Dict", "Mapping", "Tuple", "Optional"}}
    \cup {Attribute(Attribute(Name("collections"), "abc"), "Mapping"),
          Attribute(Name("ltyping"), "ist"),
          CallExpr(Name("Foo"), <<>>, <<>>),
          Subscript(Name("list"), Name("int"))}

ArgAtoms == {Name("int"), Name("str"), Name("Foo"), NoneLiteral, EllipsisLiteral}

NestedArgs ==
    {BinOp("BitOr", Name("int"), NoneLiteral),
     BinOp("BitOr", NoneLiteral, NoneLiteral),
     BinOp("BitOr", Name("int"), Name("str")),
     Subscript(Name("list"), Name("int")),
     Subscript(Name("dict"), TupleExpr(<<Name("str"), Name("int")>>)),
     Subscript(Name("dict"), Name("str")),
     Subscript(Name("tuple"), TupleExpr(<<Name("int"), Name("str")>>)),
     Subscript(Name("Optional"), Name("int"))}

Args == ArgAtoms \cup NestedArgs

Slices == Args \cup {TupleExpr(s) : s \in SeqsUpTo(Args, MaxArgs)}

Annotations ==
    Atoms
    \cup {BinOp(op, l, r) : op \in {"BitOr", "Add"},
                            l \in Atoms \cup NestedArgs, r \in Atoms \cup NestedArgs}
    \cup {Subscript(b, s) : b \in Bases, s \in Slices}

(***************************************************************************)
(* Annotation resolution: one annotation, resolved once.                   *)
(***************************************************************************)
InitResolve ==
    /\ pc = "start"
    /\ annotation \in Annotations
    /\ resolved = NoneOpt
    /\ RuntimeUnused
    /\ AnalyzeUnused
    /\ MarshalUnused
    /\ ProjectUnused

Resolve ==
    /\ pc = "start"
    /\ pc' = "done"
    /\ resolved' = Some(try_from_ast(annotation))
    /\ UNCHANGED <<annotation, analyzeVars, marshalVars, projectVars, runtimeVars>>

NextResolve == Resolve

SpecResolve == InitResolve /\ [][NextResolve]_vars

(***************************************************************************)
(* Claims about annotation resolution (SpecResolve)                        *)
(***************************************************************************)
IsUnion == annotation.kind = "BinOp" /\ annotation.op = "BitOr"

\* C5: for a binary-or annotation whose operands both resolve and exactly one
\* of them resolves to None, the result is Optional(the other operand's type),
\* whichever side None is on; when neither operand resolves to None the
\* resolution fails with an error.
C5_OptionalUnion ==
    (pc = "done" /\ IsUnion) =>
        LET l == try_from_ast(annotation.left)
            r == try_from_ast(annotation.right)
            out == resolved.val
        IN  /\ (l.ok /\ r.ok /\ l.val # None /\ r.val = None)
                => out = Ok(Optional(l.val))
            /\ (l.ok /\ r.ok /\ l.val = None /\ r.val # None)
                => out = Ok(Optional(r.val))
            /\ ((l.ok => l.val # None) /\ (r.ok => r.val # None)) => ~out.ok

C5_Witness ==
    /\ pc = "done"
    /\ annotation = BinOp("BitOr", NoneLiteral, Name("int"))
    /\ resolved = Some(Ok(Optional(Integer)))

\* C6: a binary-or annotation whose operands both resolve to None is a hard
\* error and never yields Optional(None).
C6_BothNoneRejected ==
    (pc = "done" /\ IsUnion) =>
        LET l == try_from_ast(annotation.left)
            r == try_from_ast(annotation.right)
        IN  (l.ok /\ r.ok /\ l.val = None /\ r.val = None) => ~resolved.val.ok

\* The bracketed arguments of a subscript: the elements of a tuple slice, else
\* the slice itself.
BracketArgs(sub) ==
    IF sub.slice.kind = "Tuple" THEN sub.slice.elts ELSE <<sub.slice>>

AllResolve(args) == \A i \in 1..Len(args) : try_from_ast(args[i]).ok

\* The grammar table for a subscript whose base name is `base`.
SubscriptTable(base, args, out) ==
    /\ (base \in {"list", "List"} /\ Len(args) = 1 /\ AllResolve(args))
        => out = Ok(List(try_from_ast(args[1]).val))
    /\ (base \in {"dict", "Dict", "Mapping"} /\ Len(args) # 2) => ~out.ok
    /\ (base \in {"dict", "Dict", "Mapping"} /\ Len(args) = 2 /\ AllResolve(args))
        => out = Ok(Map(try_from_ast(args[1]).val, try_from_ast(args[2]).val))
    /\ (base \in {"tuple", "Tuple"} /\ AllResolve(args))
        => out = Ok(Tuple([i \in 1..Len(args) |-> try_from_ast(args[i]).val]))
    /\ (base = "Optional" /\ Len(args) = 1 /\ AllResolve(args))
        => out = Ok(Optional(try_from_ast(args[1]).val))
    /\ base \notin {"list", "List", "dict", "Dict", "Mapping",
                     "tuple", "Tuple", "Optional"}
        => out = Ok(Any)

\* The dotted name an expression spells, "" when it spells none.
RECURSIVE DottedName(_)
DottedName(e) ==
    CASE e.kind = "Name" -> e.id
      [] e.kind = "Attribute" ->
            IF DottedName(e.value) = "" THEN "" ELSE DottedName(e.value) \o "." \o e.attr
      [] OTHER -> ""

StripPrefix(name, prefix) ==
    IF StartsWith(name, prefix) THEN SubSeq(name, Len(prefix) + 1, Len(name)) ELSE name

\* C7 as stated: the table applies to the base with its `typing.` or
\* `collections.abc.` prefix stripped, and every other base, whatever
\* expression it is, gives Any without error.
C7_AnyOtherBaseGivesAny ==
    (pc = "done" /\ annotation.kind = "Subscript") =>
        SubscriptTable(StripPrefix(StripPrefix(DottedName(annotation.value), "typing."),
                                   "collections.abc."),
                       BracketArgs(annotation), resolved.val)

\* C7 as amended: a base that is not a plain or dotted name is an error; for a
\* named base the table applies to the dotted name with every occurrence of
\* "typing." and then of "collections.abc." removed.
C7_SubscriptTable ==
    (pc = "done" /\ annotation.kind = "Subscript") =>
        IF DottedName(annotation.value) = "" THEN ~resolved.val.ok
        ELSE SubscriptTable(
                 Remove(Remove(DottedName(annotation.value), "typing."),
                        "collections.abc."),
                 BracketArgs(annotation), resolved.val)

C7_Witness ==
    /\ pc = "done"
    /\ annotation = Subscript(Attribute(Name("typing"), "Dict"),
                              TupleExpr(<<Name("str"), Name("int")>>))
    /\ resolved = Some(Ok(Map(String, Integer)))

\* C8: a bare identifier resolves to Integer for int, Float for float, String
\* for str, Boolean for bool, None for None and NoneType, and Any for every
\* other identifier; it never fails.
C8_BareIdentifier ==
    /\ (pc = "done" /\ annotation.kind = "Name") =>
            resolved.val = Ok(CASE annotation.id = "int" -> Integer
                                [] annotation.id = "float" -> Float
                                [] annotation.id = "str" -> String
                                [] annotation.id = "bool" -> Boolean
                                [] annotation.id \in {"None", "NoneType"} -> None
                                [] OTHER -> Any)
    /\ (pc = "done" /\ annotation.kind = "NoneLiteral") => resolved.val = Ok(None)

C8_Witness ==
    /\ pc = "done"
    /\ annotation = Name("Foo")
    /\ resolved = Some(Ok(Any))

\* C9: a builtins-qualified identifier (builtins.int, builtins.float,
\* builtins.str, builtins.bool) resolves without error to the same type as the
\* bare identifier.
C9_QualifiedIdentifier ==
    (/\ pc = "done"
     /\ annotation.kind = "Attribute"
     /\ annotation.value = Name("builtins")
     /\ annotation.attr \in BuiltinIdents) =>
        /\ resolved.val.ok
        /\ resolved.val = try_from_ast(Name(annotation.attr))

(***************************************************************************)
(* File analysis: one source file, analyzed once.                          *)
(***************************************************************************)
MaxParams == 2

ParamNames == <<"a", "b", "c", "d">>

ParamAnnotations == {Some(Name("int")), Some(EllipsisLiteral), NoneOpt}

ParamLists ==
    UNION {{[i \in 1..k |-> Param(ParamNames[i], anns[i])] :
               anns \in [1..k -> ParamAnnotations]} : k \in 0..MaxParams}

ReturnAnnotations ==
    {Some(Name("int")), Some(NoneLiteral), Some(EllipsisLiteral), NoneOpt}

ModFnMarker == Name("mod_fn")
HostFnMarker == Name("host_fn")
HostFnsMarker(namespace) ==
    CallExpr(Name("host_fns"), <<>>, <<Keyword("namespace", StringLiteral(namespace))>>)

TopFunctions ==
    {FunctionDef("f", d, ps, r, <<PassStmt>>) :
        d \in {<<ModFnMarker>>,
               <<CallExpr(Attribute(Name("binmod_mdk"), "mod_fn"), <<>>, <<>>)>>,
               <<>>},
        ps \in ParamLists, r \in ReturnAnnotations}

Methods ==
    {FunctionDef("h", d, ps, r, <<PassStmt>>) :
        d \in {<<HostFnMarker>>, <<>>}, ps \in ParamLists, r \in ReturnAnnotations}

Classes ==
    {ClassDef("Host", d, body) :
        d \in {<<HostFnsMarker("env")>>, <<Name("host_fns")>>, <<>>},
        body \in {<<PassStmt>>} \cup {<<m>> : m \in Methods}}

ValidFunction(name) ==
    FunctionDef(name, <<ModFnMarker>>, <<Param("a", Some(Name("int")))>>,
                Some(Name("int")), <<ExprStmt(StringLiteral("doc"))>>)

NoReturnFunction(name) ==
    FunctionDef(name, <<ModFnMarker>>, <<Param("a", Some(Name("int")))>>,
                NoneOpt, <<PassStmt>>)

ValidMethod(name) ==
    FunctionDef(name, <<HostFnMarker>>, <<Param("a", Some(Name("str")))>>,
                Some(NoneLiteral), <<PassStmt>>)

ValidClass(namespace, names) ==
    ClassDef("Host", <<HostFnsMarker(namespace)>>,
             [i \in 1..Len(names) |-> ValidMethod(names[i])])

OtherStatements ==
    {ValidFunction("g"), NoReturnFunction("g"), PassStmt,
     ValidClass("env", <<"k">>), ValidClass("ns", <<"k", "l">>)}

Suites ==
    {<<>>}
    \cup {<<s>> : s \in TopFunctions \cup Classes \cup OtherStatements}
    \cup {<<s, t>> : s \in TopFunctions \cup Classes, t \in OtherStatements}
    \cup {<<t, s>> : s \in TopFunctions \cup Classes, t \in OtherStatements}

AnalyzedFiles ==
    {SourceFile(<<"proj", "pkg", "util.py">>, TRUE, suite) : suite \in Suites}
    \cup {SourceFile(<<"proj", "pkg", "util.py">>, FALSE, <<>>)}

InitAnalyze ==
    /\ pc = "start"
    /\ file \in AnalyzedFiles
    /\ analysis = NoneOpt
    /\ RuntimeUnused
    /\ ResolveUnused
    /\ MarshalUnused
    /\ ProjectUnused

Analyze ==
    /\ pc = "start"
    /\ pc' = "done"
    /\ analysis' = Some(analyze_file(file))
    /\ UNCHANGED <<file, resolveVars, marshalVars, projectVars, runtimeVars>>

NextAnalyze == Analyze

SpecAnalyze == InitAnalyze /\ [][NextAnalyze]_vars

(***************************************************************************)
(* Claims about file analysis (SpecAnalyze)                                *)
(***************************************************************************)
\* A function definition that lacks its return annotation or the annotation of
\* one of its parameters.
LacksAnnotation(def) ==
    \/ ~def.returns.some
    \/ \E i \in 1..Len(def.parameters) : ~def.parameters[i].annotation.some

\* The marked functions of a suite: the top-level functions carrying the
\* exported-function marker and the methods carrying the host-function marker
\* in a top-level class carrying the host-functions marker.
ExportedDefs(suite) ==
    {suite[i] : i \in {j \in 1..Len(suite) :
        suite[j].kind = "FunctionDef" /\ has_decorator(suite[j], "mod_fn")}}

HostClassDefs(suite) ==
    {suite[i] : i \in {j \in 1..Len(suite) :
        suite[j].kind = "ClassDef" /\ has_decorator(suite[j], "host_fns")}}

HostMethodDefs(suite) ==
    UNION {{c.body[i] : i \in {j \in 1..Len(c.body) :
                c.body[j].kind = "FunctionDef" /\ has_decorator(c.body[j], "host_fn")}} :
           c \in HostClassDefs(suite)}

MarkedDefs(suite) == ExportedDefs(suite) \cup HostMethodDefs(suite)

\* C10: if a marked function (exported function or host-function method) of
\* the file lacks its return annotation or the annotation of a parameter,
\* analyze_file returns an error; and every signature of a returned Module
\* comes from a marked function that declares all its annotations, with one
\* resolved type per declared parameter.
C10_MissingAnnotationIsError ==
    (pc = "done" /\ file.parses) =>
        /\ (\E def \in MarkedDefs(file.suite) : LacksAnnotation(def)) => ~analysis.val.ok
        /\ (analysis.val.ok /\ analysis.val.val.some) =>
              LET m == analysis.val.val.val
                  host == IF m.host_functions.some
                          THEN m.host_functions.val.functions ELSE <<>>
                  Declared(sig, defs) ==
                      \E def \in defs :
                          /\ def.name = sig.name
                          /\ ~LacksAnnotation(def)
                          /\ Len(sig.parameters) = Len(def.parameters)
                          /\ \A i \in 1..Len(def.parameters) :
                                Ok(sig.parameters[i].type_hint)
                                    = try_from_ast(def.parameters[i].annotation.val)
                          /\ Ok(sig.return_type) = try_from_ast(def.returns.val)
              IN  /\ \A i \in 1..Len(m.module_functions) :
                        Declared(m.module_functions[i], ExportedDefs(file.suite))
                  /\ \A i \in 1..Len(host) :
                        Declared(host[i], HostMethodDefs(file.suite))

C10_Witness ==
    /\ pc = "done"
    /\ file.parses
    /\ file.suite = <<ValidFunction("g"),
                      FunctionDef("f", <<ModFnMarker>>,
                                  <<Param("a", Some(Name("int"))), Param("b", NoneOpt)>>,
                                  Some(Name("int")), <<PassStmt>>)>>
    /\ analysis = Some(Err("Missing type annotation for parameter b"))

(***************************************************************************)
(* codegen/traits.rs: the native type emitted for a ParameterType, as the  *)
(* compiler reads the emitted tokens.  A Tuple is emitted as its items     *)
(* between parentheses, separated by commas: no item gives the unit type   *)
(* `()`, one item gives the parenthesised type `(T)`, which is T.          *)
(***************************************************************************)
NString == [n |-> "String"]
Ni64 == [n |-> "i64"]
Nf64 == [n |-> "f64"]
Nbool == [n |-> "bool"]
NUnit == [n |-> "()"]
NValue == [n |-> "serde_json::Value"]
NVec(item) == [n |-> "Vec", item |-> item]
NTuple(items) == [n |-> "tuple", items |-> items]
NHashMap(k, v) == [n |-> "HashMap", key |-> k, val |-> v]
NOption(inner) == [n |-> "Option", inner |-> inner]

RECURSIVE as_token_stream(_)
as_token_stream(pt) ==
    CASE pt.t = "String" -> NString
      [] pt.t = "Integer" -> Ni64
      [] pt.t = "Float" -> Nf64
      [] pt.t = "Boolean" -> Nbool
      [] pt.t = "List" -> NVec(as_token_stream(pt.item))
      [] pt.t = "Tuple" ->
            IF Len(pt.items) = 0 THEN NUnit
            ELSE IF Len(pt.items) = 1 THEN as_token_stream(pt.items[1])
            ELSE NTuple([i \in 1..Len(pt.items) |-> as_token_stream(pt.items[i])])
      [] pt.t = "Map" ->
            NHashMap(as_token_stream(pt.key_type), as_token_stream(pt.value_type))
      [] pt.t = "Optional" -> NOption(as_token_stream(pt.inner))
      [] pt.t = "None" -> NUnit
      [] pt.t = "Any" -> NValue

\* the native types that implement Hash and Eq
RECURSIVE hashable(_)
hashable(ty) ==
    CASE ty.n \in {"String", "i64", "bool", "()"} -> TRUE
      [] ty.n \in {"Vec", "Option"} ->
            hashable(IF ty.n = "Vec" THEN ty.item ELSE ty.inner)
      [] ty.n = "tuple" -> \A i \in 1..Len(ty.items) : hashable(ty.items[i])
      [] OTHER -> FALSE

\* the native types py_to_rs is instantiable at (T: DeserializeOwned): the
\* keys of a HashMap have to implement Hash and Eq
RECURSIVE deserialize_owned(_)
deserialize_owned(ty) ==
    CASE ty.n = "Vec" -> deserialize_owned(ty.item)
      [] ty.n = "Option" -> deserialize_owned(ty.inner)
      [] ty.n = "tuple" -> \A i \in 1..Len(ty.items) : deserialize_owned(ty.items[i])
      [] ty.n = "HashMap" ->
            hashable(ty.key) /\ deserialize_owned(ty.key) /\ deserialize_owned(ty.val)
      [] OTHER -> TRUE

(***************************************************************************)
(* The three value domains of the marshaling boundary: native values,      *)
(* serde_json::Value (the intermediate form) and interpreter objects.      *)
(* A finite float is held as the number of its halves (3 is 1.5).          *)
(***************************************************************************)
StringValue(s) == [n |-> "String", s |-> s]
I64Value(i) == [n |-> "i64", i |-> i]
F64Value(halves) == [n |-> "f64", halves |-> halves]
NaN == [n |-> "f64", nan |-> TRUE]
BoolValue(b) == [n |-> "bool", b |-> b]
VecValue(items) == [n |-> "Vec", items |-> items]
TupleValue(items) == [n |-> "tuple", items |-> items]
HashMapValue(entries) == [n |-> "HashMap", entries |-> entries]
SomeValue(v) == [n |-> "Some", inner |-> v]
NoneValue == [n |-> "None"]
UnitValue == [n |-> "()"]
JsonValue(j) == [n |-> "serde_json::Value", json |-> j]

JNull == [j |-> "null"]
JBool(b) == [j |-> "bool", b |-> b]
JInt(i) == [j |-> "number", i |-> i]
JFloat(halves) == [j |-> "number", halves |-> halves]
JString(s) == [j |-> "string", s |-> s]
JArray(items) == [j |-> "array", items |-> items]
JObject(entries) == [j |-> "object", entries |-> entries]

PyNone == [py |-> "NoneType"]
PyBool(b) == [py |-> "bool", b |-> b]
PyInt(i) == [py |-> "int", i |-> i]
PyFloat(halves) == [py |-> "float", halves |-> halves]
PyStr(s) == [py |-> "str", s |-> s]
PyList(items) == [py |-> "list", items |-> items]
PyDict(entries) == [py |-> "dict", entries |-> entries]
\* an object of a class the serializer has no arm for
PyObject(class) == [py |-> class]

IsFloat(x) == "halves" \in DOMAIN x \/ "nan" \in DOMAIN x

\* the decimal text of an integer, and its inverse
Digits == "0123456789"

RECURSIVE utoa(_)
utoa(i) ==
    IF i < 10 THEN SubSeq(Digits, i + 1, i + 1)
    ELSE utoa(i \div 10) \o SubSeq(Digits, (i % 10) + 1, (i % 10) + 1)

itoa(i) == IF i < 0 THEN "-" \o utoa(-i) ELSE utoa(i)

DigitOf(c) == IF \E d \in 0..9 : SubSeq(Digits, d + 1, d + 1) = c
              THEN Some(CHOOSE d \in 0..9 : SubSeq(Digits, d + 1, d + 1) = c)
              ELSE NoneOpt

RECURSIVE atou(_, _)
atou(s, acc) ==
    IF Len(s) = 0 THEN Ok(acc)
    ELSE IF DigitOf(SubSeq(s, 1, 1)).some
         THEN atou(SubSeq(s, 2, Len(s)), acc * 10 + DigitOf(SubSeq(s, 1, 1)).val)
         ELSE Err("invalid digit")

atoi(s) ==
    IF Len(s) = 0 \/ s = "-" THEN Err("expected a number")
    ELSE IF SubSeq(s, 1, 1) = "-"
         THEN AndThen(atou(SubSeq(s, 2, Len(s)), 0), LAMBDA u : Ok(0 - u))
         ELSE atou(s, 0)

\* Results over a sequence or a set of Results: the first error, else all values
AllOk(rs) == \A i \in DOMAIN rs : rs[i].ok
FirstErr(rs) == rs[CHOOSE i \in DOMAIN rs : ~rs[i].ok /\ \A k \in DOMAIN rs : k < i => rs[k].ok]
Collect(rs) == IF AllOk(rs) THEN Ok([i \in DOMAIN rs |-> rs[i].val]) ELSE FirstErr(rs)

(***************************************************************************)
(* The conversions rs_to_py and py_to_rs are composed of (serde_json and   *)
(* the interpreter's py_serde), by what they do on the three domains.      *)
(***************************************************************************)
\* the entries of a map, converted pairwise: an error of any entry is the result
CollectEntries(pairs) ==
    IF \A p \in pairs : p[1].ok /\ p[2].ok
    THEN Ok({<<p[1].val, p[2].val>> : p \in pairs})
    ELSE LET bad == CHOOSE p \in pairs : ~(p[1].ok /\ p[2].ok)
         IN  IF bad[1].ok THEN bad[2] ELSE bad[1]

\* serde_json's MapKeySerializer: the key of an object is a string
key_to_string(k) ==
    CASE k.n = "String" -> Ok(k.s)
      [] k.n = "i64" -> Ok(itoa(k.i))
      [] k.n = "bool" -> Ok(IF k.b THEN "true" ELSE "false")
      [] OTHER -> Err("key must be a string")

\* serde_json::to_value at the Serialize implementation of the value
RECURSIVE to_value(_)
to_value(v) ==
    CASE v.n = "String" -> Ok(JString(v.s))
      [] v.n = "i64" -> Ok(JInt(v.i))
      [] v.n = "f64" -> Ok(IF "nan" \in DOMAIN v THEN JNull ELSE JFloat(v.halves))
      [] v.n = "bool" -> Ok(JBool(v.b))
      [] v.n \in {"Vec", "tuple"} ->
            AndThen(Collect([i \in 1..Len(v.items) |-> to_value(v.items[i])]),
                    LAMBDA items : Ok(JArray(items)))
      [] v.n = "HashMap" ->
            AndThen(CollectEntries({<<key_to_string(e[1]), to_value(e[2])>> :
                                        e \in v.entries}),
                    LAMBDA entries : Ok(JObject(entries)))
      [] v.n = "Some" -> to_value(v.inner)
      [] v.n \in {"None", "()"} -> Ok(JNull)
      [] v.n = "serde_json::Value" -> Ok(v.json)

\* py_serde::deserialize: the interpreter object of an intermediate form
RECURSIVE deserialize(_)
deserialize(json) ==
    CASE json.j = "null" -> Ok(PyNone)
      [] json.j = "bool" -> Ok(PyBool(json.b))
      [] json.j = "number" ->
            Ok(IF IsFloat(json) THEN PyFloat(json.halves) ELSE PyInt(json.i))
      [] json.j = "string" -> Ok(PyStr(json.s))
      [] json.j = "array" ->
            AndThen(Collect([i \in 1..Len(json.items) |-> deserialize(json.items[i])]),
                    LAMBDA items : Ok(PyList(items)))
      [] json.j = "object" ->
            AndThen(CollectEntries({<<Ok(PyStr(e[1])), deserialize(e[2])>> :
                                        e \in json.entries}),
                    LAMBDA entries : Ok(PyDict(entries)))

\* py_serde::serialize into serde_json's value Serializer
RECURSIVE serialize(_)
serialize(obj) ==
    CASE obj.py = "NoneType" -> Ok(JNull)
      [] obj.py = "bool" -> Ok(JBool(obj.b))
      [] obj.py = "int" -> Ok(JInt(obj.i))
      [] obj.py = "float" -> Ok(JFloat(obj.halves))
      [] obj.py = "str" -> Ok(JString(obj.s))
      [] obj.py = "list" ->
            AndThen(Collect([i \in 1..Len(obj.items) |-> serialize(obj.items[i])]),
                    LAMBDA items : Ok(JArray(items)))
      [] obj.py = "dict" ->
            AndThen(CollectEntries(
                        {<<IF e[1].py = "str" THEN Ok(e[1].s)
                           ELSE IF e[1].py = "int" THEN Ok(itoa(e[1].i))
                           ELSE Err("key must be a string"),
                           serialize(e[2])>> : e \in obj.entries}),
                    LAMBDA entries : Ok(JObject(entries)))
      [] OTHER -> Err("Object is not serializable")

\* serde_json's MapKeyDeserializer at the key type
RECURSIVE key_from_string(_, _)
key_from_string(ty, s) ==
    CASE ty.n = "String" -> Ok(StringValue(s))
      [] ty.n = "i64" -> AndThen(atoi(s), LAMBDA i : Ok(I64Value(i)))
      [] ty.n = "bool" ->
            IF s \in {"true", "false"} THEN Ok(BoolValue(s = "true"))
            ELSE Err("invalid type: string, expected a boolean")
      [] ty.n = "Option" ->
            AndThen(key_from_string(ty.inner, s), LAMBDA k : Ok(SomeValue(k)))
      [] OTHER -> Err("invalid type: string")

\* serde_json::from_value::<T>
RECURSIVE from_value(_, _)
from_value(ty, json) ==
    CASE ty.n = "String" ->
            IF json.j = "string" THEN Ok(StringValue(json.s))
            ELSE Err("invalid type, expected a string")
      [] ty.n = "i64" ->
            IF json.j = "number" /\ ~IsFloat(json) THEN Ok(I64Value(json.i))
            ELSE Err("invalid type, expected i64")
      [] ty.n = "f64" ->
            IF json.j = "number"
            THEN Ok(F64Value(IF IsFloat(json) THEN json.halves ELSE 2 * json.i))
            ELSE Err("invalid type, expected f64")
      [] ty.n = "bool" ->
            IF json.j = "bool" THEN Ok(BoolValue(json.b))
            ELSE Err("invalid type, expected a boolean")
      [] ty.n = "Vec" ->
            IF json.j = "array"
            THEN AndThen(Collect([i \in 1..Len(json.items) |->
                                      from_value(ty.item, json.items[i])]),
                         LAMBDA items : Ok(VecValue(items)))
            ELSE Err("invalid type, expected a sequence")
      [] ty.n = "tuple" ->
            IF json.j = "array" /\ Len(json.items) = Len(ty.items)
            THEN AndThen(Collect([i \in 1..Len(ty.items) |->
                                      from_value(ty.items[i], json.items[i])]),
                         LAMBDA items : Ok(TupleValue(items)))
            ELSE Err("invalid type or length, expected a tuple")
      [] ty.n = "HashMap" ->
            IF json.j = "object"
            THEN AndThen(CollectEntries({<<key_from_string(ty.key, e[1]),
                                           from_value(ty.val, e[2])>> :
                                             e \in json.entries}),
                         LAMBDA entries : Ok(HashMapValue(entries)))
            ELSE Err("invalid type, expected a map")
      [] ty.n = "Option" ->
            IF json.j = "null" THEN Ok(NoneValue)
            ELSE AndThen(from_value(ty.inner, json), LAMBDA v : Ok(SomeValue(v)))
      [] ty.n = "()" ->
            IF json.j = "null" THEN Ok(UnitValue)
            ELSE Err("invalid type, expected unit")
      [] ty.n = "serde_json::Value" -> Ok(JsonValue(json))

\* lib_rs.rs: ModuleFnErr and the map_err of the two conversions
ModuleFnErr(error_type, message) == [error_type |-> error_type, message |-> message]

map_err(r, error_type, prefix) ==
    IF r.ok THEN r ELSE Err(ModuleFnErr(error_type, prefix \o r.err))

rs_to_py(v) ==
    AndThen(map_err(to_value(v), "SerializationError", "Failed to serialize: "),
            LAMBDA serialized :
                map_err(deserialize(serialized),
                        "DeserializationError", "Failed to deserialize: "))

py_to_rs(ty, obj) ==
    AndThen(map_err(serialize(obj), "SerializationError", "Failed to serialize: "),
            LAMBDA serialized :
                map_err(from_value(ty, serialized),
                        "DeserializationError", "Failed to deserialize: "))

(***************************************************************************)
(* The marshaling boundary: a native value of the native type of a         *)
(* ParameterType the grammar constructs goes to the interpreter and back.  *)
(***************************************************************************)
MaxLen == 3
MaxEntries == 1

Ints == 1..3

\* the subsets of S of at most n elements
RECURSIVE SubsetsUpTo(_, _)
SubsetsUpTo(S, n) ==
    IF n = 0 THEN {{}}
    ELSE SubsetsUpTo(S, n - 1) \cup {s \cup {x} : s \in SubsetsUpTo(S, n - 1), x \in S}

JsonValues ==
    {JNull, JBool(TRUE), JInt(1), JFloat(3), JString("a"),
     JArray(<<JInt(1), JNull>>), JObject({<<"a", JInt(1)>>})}

RECURSIVE Values(_)
Values(ty) ==
    CASE ty.n = "String" -> {StringValue(s) : s \in {"a", "b"}}
      [] ty.n = "i64" -> {I64Value(i) : i \in Ints}
      [] ty.n = "f64" -> {F64Value(3), F64Value(-4), NaN}
      [] ty.n = "bool" -> {BoolValue(b) : b \in BOOLEAN}
      [] ty.n = "Vec" -> {VecValue(s) : s \in SeqsUpTo(Values(ty.item), MaxLen)}
      [] ty.n = "tuple" ->
            {TupleValue(s) :
                 s \in {f \in [1..Len(ty.items) ->
                                   UNION {Values(ty.items[i]) : i \in 1..Len(ty.items)}] :
                            \A i \in 1..Len(ty.items) : f[i] \in Values(ty.items[i])}}
      [] ty.n = "HashMap" ->
            {HashMapValue({<<k, f[k]>> : k \in DOMAIN f}) :
                 f \in UNION {[keys -> Values(ty.val)] :
                                  keys \in SubsetsUpTo(Values(ty.key), MaxEntries)}}
      [] ty.n = "Option" -> {NoneValue} \cup {SomeValue(v) : v \in Values(ty.inner)}
      [] ty.n = "()" -> {UnitValue}
      [] ty.n = "serde_json::Value" -> {JsonValue(j) : j \in JsonValues}

MarshalAnnotations ==
    {Name(i) : i \in BuiltinIdents \cup {"Foo"}}
    \cup {NoneLiteral}
    \cup NestedArgs
    \cup {Subscript(Name("Optional"), a) :
              a \in {NoneLiteral, Subscript(Name("list"), Name("int")),
                     Subscript(Name("Optional"), Name("int"))}}
    \cup {Subscript(Name("list"), a) :
              a \in {Name("float"), BinOp("BitOr", Name("int"), NoneLiteral)}}
    \cup {Subscript(Name("dict"), TupleExpr(<<k, v>>)) :
              k \in {Name("int"), Name("float"),
                     Subscript(Name("tuple"), TupleExpr(<<Name("int"), Name("str")>>))},
              v \in {Name("str"), Subscript(Name("Optional"), Name("int"))}}
    \cup {Subscript(Name("tuple"), s) :
              s \in {TupleExpr(<<>>), Name("int"),
                     TupleExpr(<<BinOp("BitOr", Name("int"), NoneLiteral),
                                 Subscript(Name("list"), Name("int"))>>)}}

\* the ParameterTypes the grammar constructs from them, at which the emitted
\* conversions compile
MarshalTypes ==
    {r.val : r \in {x \in {try_from_ast(a) : a \in MarshalAnnotations} : x.ok}}

InitMarshal ==
    /\ pc = "native"
    /\ ptype \in {pt \in MarshalTypes : deserialize_owned(as_token_stream(pt))}
    /\ native \in Values(as_token_stream(ptype))
    /\ py_obj = NoneOpt
    /\ deserialized = NoneOpt
    /\ RuntimeUnused
    /\ ResolveUnused
    /\ AnalyzeUnused
    /\ ProjectUnused

RsToPy ==
    /\ pc = "native"
    /\ pc' = "interpreter"
    /\ py_obj' = rs_to_py(native)
    /\ UNCHANGED <<ptype, native, deserialized, resolveVars, analyzeVars, projectVars, runtimeVars>>

PyToRs ==
    /\ pc = "interpreter"
    /\ py_obj.ok
    /\ pc' = "done"
    /\ deserialized' = py_to_rs(as_token_stream(ptype), py_obj.val)
    /\ UNCHANGED <<ptype, native, py_obj, resolveVars, analyzeVars, projectVars, runtimeVars>>

NextMarshal == RsToPy \/ PyToRs

SpecMarshal == InitMarshal /\ [][NextMarshal]_vars

(***************************************************************************)
(* Claims about the marshaling boundary (SpecMarshal)                      *)
(***************************************************************************)
\* C4: for every ParameterType the grammar constructs and every value of its
\* native type, rs_to_py succeeds, py_to_rs at the same type succeeds, and the
\* value it returns equals the original.
C4_RoundTrip ==
    /\ pc = "interpreter" => py_obj.ok
    /\ pc = "done" => deserialized.ok /\ deserialized.val = native

(***************************************************************************)
(* Paths and the project tree.  A path is the sequence of its components,  *)
(* an absolute one starting at "/".  A tree is a set of nodes: directories, *)
(* source files and the pyproject.toml with its parsed content.            *)
(***************************************************************************)
is_absolute(p) == Len(p) > 0 /\ p[1] = "/"
join(base, p) == IF is_absolute(p) THEN p ELSE base \o p
starts_with(p, base) == Len(p) >= Len(base) /\ SubSeq(p, 1, Len(base)) = base
strip_prefix(p, base) == SubSeq(p, Len(base) + 1, Len(p))
file_name(p) == p[Len(p)]
parent(p) == SubSeq(p, 1, Len(p) - 1)

Dir(path) == [path |-> path, kind |-> "dir"]
TomlFile(path, toml) == [path |-> path, kind |-> "file", toml |-> toml]

is_dir(tree, p) == \E n \in tree : n.path = p /\ n.kind = "dir"
is_file(tree, p) == \E n \in tree : n.path = p /\ n.kind = "file"
node_at(tree, p) == CHOOSE n \in tree : n.path = p

\* the entries of a directory; the order they come in is not determined
read_dir(tree, dir) ==
    {n.path : n \in {m \in tree : Len(m.path) = Len(dir) + 1 /\ starts_with(m.path, dir)}}

\* the orders a set of entries can be enumerated in
Enumerations(entries) ==
    {order \in [1..Cardinality(entries) -> entries] :
         \A i, k \in 1..Cardinality(entries) : i # k => order[i] # order[k]}

(***************************************************************************)
(* parser/file_walker: the ignore policy and one directory of the walk     *)
(***************************************************************************)
IgnoredNames ==
    {".venv", "venv", "__pycache__", ".git", ".hg", ".svn", "node_modules", "dist",
     "build", "*.egg-info", "*.pyc", "*.pyo", "*.pyd", "*.so", "*.dll", "*.dylib",
     ".mypy_cache", ".ruff_cache", ".pytest_cache"}

should_ignore(path) == Len(path) > 0 /\ file_name(path) \in IgnoredNames

\* the inner loop of walk over the entries of one directory, in their order
RECURSIVE walk_entries(_, _, _, _)
walk_entries(tree, entries, dirs, found) ==
    IF Len(entries) = 0 THEN [stack |-> dirs, files |-> found]
    ELSE IF should_ignore(Head(entries))
         THEN walk_entries(tree, Tail(entries), dirs, found)
    ELSE IF is_dir(tree, Head(entries))
         THEN walk_entries(tree, Tail(entries), Append(dirs, Head(entries)), found)
    ELSE IF is_file(tree, Head(entries))
         THEN walk_entries(tree, Tail(entries), dirs, Append(found, Head(entries)))
    ELSE walk_entries(tree, Tail(entries), dirs, found)

(***************************************************************************)
(* parser/metadata_parser/pep621.rs                                        *)
(***************************************************************************)
Py2BinmodConfig(venv, module_root, module) ==
    [venv |-> venv, module_root |-> module_root, module |-> module]

parse_metadata(tree, project_dir) ==
    IF ~is_file(tree, join(project_dir, <<"pyproject.toml">>))
    THEN Err("MissingProjectMetadata")
    ELSE IF ~node_at(tree, join(project_dir, <<"pyproject.toml">>)).toml.project.some
         THEN Err("MissingProjectMetadata")
         ELSE Ok([name |-> node_at(tree, join(project_dir, <<"pyproject.toml">>))
                               .toml.project.val.name,
                  version |-> node_at(tree, join(project_dir, <<"pyproject.toml">>))
                                  .toml.project.val.version,
                  py2binmod |-> node_at(tree, join(project_dir, <<"pyproject.toml">>))
                                    .toml.py2binmod])

(***************************************************************************)
(* parser/layout_resolver.rs                                               *)
(***************************************************************************)
EndsWith(s, suffix) ==
    Len(s) >= Len(suffix) /\ SubSeq(s, Len(s) - Len(suffix) + 1, Len(s)) = suffix

\* str::trim_end_matches: every repetition of the suffix at the end is removed
RECURSIVE trim_end_matches(_, _)
trim_end_matches(s, suffix) ==
    IF EndsWith(s, suffix)
    THEN trim_end_matches(SubSeq(s, 1, Len(s) - Len(suffix)), suffix)
    ELSE s

LayoutHints(venv, module_root, module) ==
    [venv |-> venv, module_root |-> module_root, module |-> module]

VenvNames == <<"venv", ".venv", "env", ".env">>

\* the same search with the names tried from the last to the first
find_venv_last_first(tree, project_dir) ==
    IF \E i \in 1..Len(VenvNames) : is_dir(tree, join(project_dir, <<VenvNames[i]>>))
    THEN Some(join(project_dir,
                   <<VenvNames[CHOOSE i \in 1..Len(VenvNames) :
                         /\ is_dir(tree, join(project_dir, <<VenvNames[i]>>))
                         /\ \A k \in (i + 1)..Len(VenvNames) :
                                ~is_dir(tree, join(project_dir, <<VenvNames[k]>>))]>>))
    ELSE NoneOpt

find_venv(tree, project_dir) ==
    IF \E i \in 1..Len(VenvNames) : is_dir(tree, join(project_dir, <<VenvNames[i]>>))
    THEN Some(join(project_dir,
                   <<VenvNames[CHOOSE i \in 1..Len(VenvNames) :
                         /\ is_dir(tree, join(project_dir, <<VenvNames[i]>>))
                         /\ \A k \in 1..(i - 1) :
                                ~is_dir(tree, join(project_dir, <<VenvNames[k]>>))]>>))
    ELSE NoneOpt

\* the loop of find_site_packages over the entries of lib, in the order read_dir
\* gives them: the first python* entry that has a site-packages directory
RECURSIVE first_site_packages(_, _)
first_site_packages(tree, entries) ==
    IF Len(entries) = 0 THEN NoneOpt
    ELSE IF /\ StartsWith(file_name(Head(entries)), "python")
            /\ is_dir(tree, join(Head(entries), <<"site-packages">>))
         THEN Some(join(Head(entries), <<"site-packages">>))
         ELSE first_site_packages(tree, Tail(entries))

find_site_packages(tree, venv_path, lib_entries) ==
    IF ~is_dir(tree, join(venv_path, <<"lib">>)) THEN NoneOpt
    ELSE first_site_packages(tree, lib_entries)

import_root_of(tree, project_dir, hints) ==
    IF hints.module_root.some THEN join(project_dir, hints.module_root.val)
    ELSE IF is_dir(tree, join(project_dir, <<"src">>))
         THEN join(project_dir, <<"src">>)
         ELSE project_dir

venv_dir_of(tree, project_dir, hints) ==
    IF hints.venv.some THEN Some(join(project_dir, hints.venv.val))
    ELSE find_venv(tree, project_dir)

LayoutResult(venv_dir, site_packages_dir, module_root, module_name) ==
    [venv_dir |-> venv_dir, site_packages_dir |-> site_packages_dir,
     module_root |-> module_root, module_name |-> module_name]

\* the top-level names under import_root that hold an __init__.py
candidates_of(paths, import_root) ==
    {strip_prefix(paths[i], import_root)[1] :
         i \in {k \in 1..Len(paths) : /\ starts_with(paths[k], import_root)
                                      /\ Len(paths[k]) > Len(import_root)
                                      /\ file_name(paths[k]) = "__init__.py"}}

\* the same resolution picking a candidate whenever there is one
resolve_module_guessing(tree, paths, hints, import_root, venv_dir, site_packages_dir) ==
    IF hints.module.some
    THEN IF is_file(tree, join(import_root,
                               <<trim_end_matches(hints.module.val, ".py") \o ".py">>))
         THEN Ok(LayoutResult(venv_dir, site_packages_dir, import_root,
                              trim_end_matches(hints.module.val, ".py")))
         ELSE IF /\ is_dir(tree, join(import_root,
                                      <<trim_end_matches(hints.module.val, ".py")>>))
                 /\ is_file(tree, join(import_root,
                                       <<trim_end_matches(hints.module.val, ".py"),
                                         "__init__.py">>))
              THEN Ok(LayoutResult(venv_dir, site_packages_dir,
                                   join(import_root,
                                        <<trim_end_matches(hints.module.val, ".py")>>),
                                   trim_end_matches(hints.module.val, ".py")))
              ELSE Err("MissingModule")
    ELSE IF \E name \in candidates_of(paths, import_root) :
                /\ is_dir(tree, join(import_root, <<name>>))
                /\ is_file(tree, join(import_root, <<name, "__init__.py">>))
         THEN Ok(LayoutResult(venv_dir, site_packages_dir,
                              join(import_root,
                                   <<CHOOSE name \in candidates_of(paths, import_root) :
                                         /\ is_dir(tree, join(import_root, <<name>>))
                                         /\ is_file(tree, join(import_root,
                                                               <<name, "__init__.py">>))>>),
                              CHOOSE name \in candidates_of(paths, import_root) :
                                  /\ is_dir(tree, join(import_root, <<name>>))
                                  /\ is_file(tree, join(import_root,
                                                        <<name, "__init__.py">>))))
         ELSE Err("MissingModule")

\* the same resolution with the package directory tried before the file
resolve_module_dir_first(tree, paths, hints, import_root, venv_dir, site_packages_dir) ==
    IF hints.module.some
    THEN IF /\ is_dir(tree, join(import_root,
                                 <<trim_end_matches(hints.module.val, ".py")>>))
            /\ is_file(tree, join(import_root,
                                  <<trim_end_matches(hints.module.val, ".py"),
                                    "__init__.py">>))
         THEN Ok(LayoutResult(venv_dir, site_packages_dir,
                              join(import_root,
                                   <<trim_end_matches(hints.module.val, ".py")>>),
                              trim_end_matches(hints.module.val, ".py")))
         ELSE IF is_file(tree, join(import_root,
                                    <<trim_end_matches(hints.module.val, ".py") \o ".py">>))
              THEN Ok(LayoutResult(venv_dir, site_packages_dir, import_root,
                                   trim_end_matches(hints.module.val, ".py")))
              ELSE Err("MissingModule")
    ELSE Err("MissingModule")

\* the module of the layout, once venv_dir and site_packages_dir are found
resolve_module(tree, paths, hints, import_root, venv_dir, site_packages_dir) ==
    IF hints.module.some
    THEN IF is_file(tree, join(import_root,
                               <<trim_end_matches(hints.module.val, ".py") \o ".py">>))
         THEN Ok(LayoutResult(venv_dir, site_packages_dir, import_root,
                              trim_end_matches(hints.module.val, ".py")))
         ELSE IF /\ is_dir(tree, join(import_root,
                                      <<trim_end_matches(hints.module.val, ".py")>>))
                 /\ is_file(tree, join(import_root,
                                       <<trim_end_matches(hints.module.val, ".py"),
                                         "__init__.py">>))
              THEN Ok(LayoutResult(venv_dir, site_packages_dir,
                                   join(import_root,
                                        <<trim_end_matches(hints.module.val, ".py")>>),
                                   trim_end_matches(hints.module.val, ".py")))
              ELSE Err("MissingModule")
    ELSE IF Cardinality(candidates_of(paths, import_root)) # 1 THEN Err("MissingModule")
    ELSE IF \E name \in candidates_of(paths, import_root) :
                \/ ~is_dir(tree, join(import_root, <<name>>))
                \/ ~is_file(tree, join(import_root, <<name, "__init__.py">>))
         THEN Err("MissingModule")
         ELSE Ok(LayoutResult(venv_dir, site_packages_dir,
                              join(import_root,
                                   <<CHOOSE name \in candidates_of(paths, import_root) :
                                         TRUE>>),
                              CHOOSE name \in candidates_of(paths, import_root) : TRUE))

resolve(tree, project_dir, paths, hints, lib_entries) ==
    IF ~venv_dir_of(tree, project_dir, hints).some THEN Err("MissingVirtualEnv")
    ELSE IF ~find_site_packages(tree, venv_dir_of(tree, project_dir, hints).val,
                                lib_entries).some
         THEN Err("MissingSitePackages")
         ELSE resolve_module(tree, paths, hints,
                             import_root_of(tree, project_dir, hints),
                             venv_dir_of(tree, project_dir, hints).val,
                             find_site_packages(tree,
                                                venv_dir_of(tree, project_dir, hints).val,
                                                lib_entries).val)

(***************************************************************************)
(* parser/mod.rs: parse_project after the walk                             *)
(***************************************************************************)
ProjectParserOptions(venv_override, module_root_override, module_override) ==
    [venv_override |-> venv_override, module_root_override |-> module_root_override,
     module_override |-> module_override]

\* the same hints with the metadata value taken before the caller override
hints_of_metadata_first(options, metadata) ==
    LayoutHints(
        IF metadata.py2binmod.some /\ metadata.py2binmod.val.venv.some
        THEN metadata.py2binmod.val.venv ELSE options.venv_override,
        IF metadata.py2binmod.some /\ metadata.py2binmod.val.module_root.some
        THEN metadata.py2binmod.val.module_root ELSE options.module_root_override,
        IF metadata.py2binmod.some /\ metadata.py2binmod.val.module.some
        THEN metadata.py2binmod.val.module ELSE options.module_override)

\* caller override, else metadata override
hints_of(options, metadata) ==
    LayoutHints(
        IF options.venv_override.some THEN options.venv_override
        ELSE IF metadata.py2binmod.some THEN metadata.py2binmod.val.venv ELSE NoneOpt,
        IF options.module_root_override.some THEN options.module_root_override
        ELSE IF metadata.py2binmod.some THEN metadata.py2binmod.val.module_root
        ELSE NoneOpt,
        IF options.module_override.some THEN options.module_override
        ELSE IF metadata.py2binmod.some THEN metadata.py2binmod.val.module ELSE NoneOpt)

\* the filter of parse_project: the source extension, under module_root
RECURSIVE source_files(_, _)
source_files(paths, module_root) ==
    IF Len(paths) = 0 THEN <<>>
    ELSE IF /\ extension(file_name(Head(paths))) = "py"
            /\ starts_with(Head(paths), module_root)
         THEN <<Head(paths)>> \o source_files(Tail(paths), module_root)
         ELSE source_files(Tail(paths), module_root)

\* the same stream with the failed extractions left out instead of returned
RECURSIVE collect_modules_skipping_errors(_, _, _)
collect_modules_skipping_errors(tree, paths, modules) ==
    IF Len(paths) = 0 THEN Ok(modules)
    ELSE IF ~analyze_file(node_at(tree, Head(paths))).ok
         THEN collect_modules_skipping_errors(tree, Tail(paths), modules)
         ELSE AndThen(analyze_file(node_at(tree, Head(paths))), LAMBDA found :
              collect_modules_skipping_errors(tree, Tail(paths),
                  IF found.some THEN Append(modules, found.val) ELSE modules))

\* then / try_collect / flatten: the files are analyzed in order, the first
\* error is the result, a file without marked definitions adds no Module
RECURSIVE collect_modules(_, _, _)
collect_modules(tree, paths, modules) ==
    IF Len(paths) = 0 THEN Ok(modules)
    ELSE AndThen(analyze_file(node_at(tree, Head(paths))), LAMBDA found :
         collect_modules(tree, Tail(paths),
                         IF found.some THEN Append(modules, found.val) ELSE modules))

ProjectContext(layout, project_dir, metadata, modules) ==
    [venv_dir |-> layout.venv_dir,
     site_packages_dir |-> layout.site_packages_dir,
     project_dir |-> project_dir,
     module_root |-> layout.module_root,
     module_name |-> layout.module_name,
     metadata |-> metadata,
     modules |-> modules]

\* parse_project from the metadata on, over the files the walk returned and
\* the order read_dir gives the entries of the environment's lib directory in
assemble(tree, project_dir, options, paths, lib_entries) ==
    AndThen(parse_metadata(tree, project_dir), LAMBDA metadata :
    AndThen(resolve(tree, project_dir, paths, hints_of(options, metadata), lib_entries),
            LAMBDA layout :
    AndThen(collect_modules(tree, source_files(paths, layout.module_root), <<>>),
            LAMBDA modules :
    Ok(ProjectContext(layout, project_dir, metadata, modules)))))

(***************************************************************************)
(* types.rs: Module::import_path                                           *)
(***************************************************************************)
RECURSIVE join_dots(_)
join_dots(components) ==
    IF Len(components) = 0 THEN ""
    ELSE IF Len(components) = 1 THEN components[1]
    ELSE components[1] \o "." \o join_dots(Tail(components))

\* the last component without its .py suffix
trim_last(components) ==
    IF Len(components) > 0 /\ EndsWith(components[Len(components)], ".py")
    THEN [components EXCEPT ![Len(components)] = trim_end_matches(@, ".py")]
    ELSE components

\* the same step with the package-init component kept
pop_init_kept(components) == components

pop_init(components) ==
    IF Len(components) > 0 /\ components[Len(components)] = "__init__"
    THEN SubSeq(components, 1, Len(components) - 1)
    ELSE components

import_path(module, module_root) ==
    IF Len(pop_init(trim_last(strip_prefix(module.file_path, module_root)))) = 0
    THEN NoneOpt
    ELSE Some(join_dots(pop_init(trim_last(strip_prefix(module.file_path, module_root)))))

(***************************************************************************)
(* codegen/lib_rs.rs: the emitted unit, as the items it holds              *)
(***************************************************************************)
Parameter_as_token_stream(p) == [name |-> p.name, type |-> as_token_stream(p.type_hint)]

parameters_as_token_stream(parameters) ==
    [i \in 1..Len(parameters) |-> Parameter_as_token_stream(parameters[i])]

generate_globals(ctx) ==
    [native_modules |-> {"hostfns"},
     frozen_dirs |-> <<parent(ctx.module_root), ctx.site_packages_dir>>]

\* find_map / find: the first Module, in the order of the list, that has
\* host functions
first_host_functions(modules) ==
    IF \E i \in 1..Len(modules) : modules[i].host_functions.some
    THEN modules[CHOOSE i \in 1..Len(modules) :
                     /\ modules[i].host_functions.some
                     /\ \A k \in 1..(i - 1) : ~modules[k].host_functions.some]
             .host_functions
    ELSE NoneOpt

extern_fn(f) ==
    [name |-> f.name,
     params |-> parameters_as_token_stream(f.parameters),
     return_type |-> as_token_stream(f.return_type)]

wrapper(f) ==
    [fn_name |-> f.name \o "_wrapper",
     pyfunction |-> f.name,
     host_fn_name |-> f.name,
     params |-> parameters_as_token_stream(f.parameters),
     return_type |-> as_token_stream(f.return_type)]

generate_host_functions(ctx) ==
    IF ~first_host_functions(ctx.modules).some THEN NoneOpt
    ELSE Some([namespace |-> first_host_functions(ctx.modules).val.namespace,
               extern_fns |->
                   [i \in 1..Len(first_host_functions(ctx.modules).val.functions) |->
                        extern_fn(first_host_functions(ctx.modules).val.functions[i])],
               hostfns |->
                   [i \in 1..Len(first_host_functions(ctx.modules).val.functions) |->
                        wrapper(first_host_functions(ctx.modules).val.functions[i])]])

generate_initialize(ctx) ==
    [namespace |-> IF first_host_functions(ctx.modules).some
                   THEN first_host_functions(ctx.modules).val.namespace
                   ELSE "env"]

generate_exported_function_shim(func, import_path_) ==
    [fn_impl_name |-> func.name \o "_shim",
     mod_fn_name |-> func.name,
     import_path |-> import_path_,
     docstring |-> IF func.docstring.some THEN func.docstring.val ELSE "",
     params |-> parameters_as_token_stream(func.parameters),
     return_type |-> as_token_stream(func.return_type),
     unit_body |-> func.return_type = None]

module_shims(ctx, module) ==
    [i \in 1..Len(module.module_functions) |->
         generate_exported_function_shim(
             module.module_functions[i],
             IF import_path(module, ctx.module_root).some
             THEN ctx.module_name \o "." \o import_path(module, ctx.module_root).val
             ELSE ctx.module_name)]

RECURSIVE flat_map_shims(_, _)
flat_map_shims(ctx, modules) ==
    IF Len(modules) = 0 THEN <<>>
    ELSE module_shims(ctx, Head(modules)) \o flat_map_shims(ctx, Tail(modules))

generate_exported_functions(ctx) == flat_map_shims(ctx, ctx.modules)

generate(ctx) ==
    [globals |-> generate_globals(ctx),
     host_functions |-> generate_host_functions(ctx),
     initialize |-> generate_initialize(ctx),
     exported_functions |-> generate_exported_functions(ctx)]

(***************************************************************************)
(* The projects parse_project is run on: a root with a pyproject.toml, a   *)
(* setup.py outside the package, an environment, and a package of one or   *)
(* two modules next to an ignored build directory.                         *)
(***************************************************************************)
ProjectDir == <<"/", "proj">>

Toml(project_, py2binmod) == [project |-> project_, py2binmod |-> py2binmod]

PlainToml == Toml(Some([name |-> "demo", version |-> "0.1.0"]), NoneOpt)

Tomls ==
    {PlainToml,
     Toml(NoneOpt, NoneOpt),
     Toml(Some([name |-> "demo", version |-> "0.1.0"]),
          Some(Py2BinmodConfig(NoneOpt, NoneOpt, Some("pkg.py")))),
     Toml(Some([name |-> "demo", version |-> "0.1.0"]),
          Some(Py2BinmodConfig(Some(<<"env">>), NoneOpt, Some("other"))))}

Root(toml) ==
    {Dir(<<"/">>), Dir(ProjectDir),
     SourceFile(ProjectDir \o <<"setup.py">>, TRUE, <<NoReturnFunction("setup")>>)}
    \cup (IF toml.some THEN {TomlFile(ProjectDir \o <<"pyproject.toml">>, toml.val)}
          ELSE {})

Environment(name, versions, with_site_packages) ==
    {Dir(ProjectDir \o <<name>>), Dir(ProjectDir \o <<name, "lib">>)}
    \cup {Dir(ProjectDir \o <<name, "lib", v>>) : v \in versions}
    \cup (IF with_site_packages
          THEN {Dir(ProjectDir \o <<name, "lib", v, "site-packages">>) : v \in versions}
          ELSE {})

Environments ==
    {{},
     Environment(".venv", {"python3.11"}, TRUE),
     Environment(".venv", {"python3.10", "python3.11"}, TRUE),
     Environment(".venv", {"python3.11"}, FALSE),
     Environment("env", {"python3.11"}, TRUE)}

ModuleSources ==
    {[parses |-> TRUE, suite |-> s] :
         s \in {<<ValidFunction("f")>>,
                <<ValidFunction("f"), NoReturnFunction("g")>>,
                <<ValidFunction("initialize")>>,
                <<ValidClass("ns1", <<"h1">>)>>,
                <<ValidFunction("f2"), ValidClass("ns2", <<"h2">>)>>,
                <<ValidClass("ns1", <<"h1">>), ValidClass("ns2", <<"h2">>)>>,
                <<ClassDef("Host", <<HostFnsMarker("ns1")>>,
                           <<ValidMethod("h1"),
                             FunctionDef("h3", <<HostFnMarker>>, <<>>, NoneOpt,
                                         <<PassStmt>>)>>)>>,
                <<PassStmt>>}}
    \cup {[parses |-> FALSE, suite |-> <<>>]}

Package(a, b) ==
    {Dir(ProjectDir \o <<"pkg">>),
     SourceFile(ProjectDir \o <<"pkg", "__init__.py">>, TRUE, <<>>),
     SourceFile(ProjectDir \o <<"pkg", "a.py">>, a.parses, a.suite),
     Dir(ProjectDir \o <<"pkg", "build">>),
     SourceFile(ProjectDir \o <<"pkg", "build", "gen.py">>, TRUE,
                <<NoReturnFunction("gen")>>)}
    \cup (IF b.some
          THEN {SourceFile(ProjectDir \o <<"pkg", "b.py">>, b.val.parses, b.val.suite)}
          ELSE {})

NoOverride == ProjectParserOptions(NoneOpt, NoneOpt, NoneOpt)

Overrides ==
    {NoOverride,
     ProjectParserOptions(NoneOpt, NoneOpt, Some("pkg")),
     ProjectParserOptions(Some(<<".venv">>), NoneOpt, NoneOpt),
     ProjectParserOptions(NoneOpt, Some(<<"pkg">>), NoneOpt)}

Project(tree, project_dir, options) ==
    [tree |-> tree, project_dir |-> project_dir, options |-> options]

DefaultEnvironment == Environment(".venv", {"python3.11"}, TRUE)
DefaultPackage == Package([parses |-> TRUE, suite |-> <<ValidFunction("f")>>], NoneOpt)

Projects ==
    {Project(Root(Some(PlainToml)) \cup DefaultEnvironment \cup Package(a, b),
             ProjectDir, NoOverride) :
         a \in ModuleSources, b \in {NoneOpt} \cup {Some(m) : m \in ModuleSources}}
    \cup {Project(Root(Some(PlainToml)) \cup e \cup DefaultPackage, ProjectDir, o) :
              e \in Environments, o \in Overrides}
    \cup {Project(Root(t) \cup DefaultEnvironment \cup DefaultPackage, ProjectDir,
                  NoOverride) : t \in {NoneOpt} \cup {Some(x) : x \in Tomls}}
    \cup {Project(Root(Some(PlainToml)) \cup DefaultEnvironment \cup DefaultPackage,
                  ProjectDir \o <<"setup.py">>, NoOverride)}

(***************************************************************************)
(* Project assembly and emission: parse_project walks the tree one         *)
(* directory at a time, assembles the context, and is either run again     *)
(* over the unchanged tree or followed by the generation of the unit.      *)
(***************************************************************************)
InitProject ==
    /\ pc = "start"
    /\ project \in Projects
    /\ stack = <<>>
    /\ files = <<>>
    /\ context = NoneOpt
    /\ previous = NoneOpt
    /\ unit = NoneOpt
    /\ RuntimeUnused
    /\ ResolveUnused
    /\ AnalyzeUnused
    /\ MarshalUnused

\* parse_project up to the start of the walk
Begin ==
    /\ pc = "start"
    /\ IF ~is_dir(project.tree, project.project_dir)
       THEN /\ context' = Some(Err("InvalidProjectDir"))
            /\ pc' = "parsed"
            /\ UNCHANGED stack
       ELSE /\ stack' = <<project.project_dir>>
            /\ pc' = "walk"
            /\ UNCHANGED context
    /\ UNCHANGED <<project, files, previous, unit, resolveVars, analyzeVars, marshalVars, runtimeVars>>

\* one turn of the outer loop of walk: the last directory of the stack is
\* read, in whatever order the filesystem enumerates it
ReadDir ==
    /\ pc = "walk"
    /\ Len(stack) > 0
    /\ \E entries \in Enumerations(read_dir(project.tree, stack[Len(stack)])) :
           /\ stack' = walk_entries(project.tree, entries,
                                    SubSeq(stack, 1, Len(stack) - 1), files).stack
           /\ files' = walk_entries(project.tree, entries,
                                    SubSeq(stack, 1, Len(stack) - 1), files).files
    /\ UNCHANGED <<pc, project, context, previous, unit,
                   resolveVars, analyzeVars, marshalVars, runtimeVars>>

\* the lib directory find_site_packages reads, if the assembly gets there
lib_path_of(tree, project_dir, options) ==
    IF /\ parse_metadata(tree, project_dir).ok
       /\ venv_dir_of(tree, project_dir,
                      hints_of(options, parse_metadata(tree, project_dir).val)).some
    THEN join(venv_dir_of(tree, project_dir,
                          hints_of(options, parse_metadata(tree, project_dir).val)).val,
              <<"lib">>)
    ELSE <<>>

\* the rest of parse_project, once the walk is over
Assemble ==
    /\ pc = "walk"
    /\ Len(stack) = 0
    /\ \E lib_entries \in Enumerations(read_dir(project.tree,
                              lib_path_of(project.tree, project.project_dir,
                                          project.options))) :
           context' = Some(assemble(project.tree, project.project_dir, project.options,
                                    files, lib_entries))
    /\ pc' = "parsed"
    /\ UNCHANGED <<project, stack, files, previous, unit,
                   resolveVars, analyzeVars, marshalVars, runtimeVars>>

\* the assembly is run a second time over the unchanged tree
Rerun ==
    /\ pc = "parsed"
    /\ ~previous.some
    /\ previous' = context
    /\ context' = NoneOpt
    /\ stack' = <<>>
    /\ files' = <<>>
    /\ pc' = "start"
    /\ UNCHANGED <<project, unit, resolveVars, analyzeVars, marshalVars, runtimeVars>>

\* ProjectGenerator over the context parse_project returned
Generate ==
    /\ pc = "parsed"
    /\ context.val.ok
    /\ unit' = Some(generate(context.val.val))
    /\ pc' = "generated"
    /\ UNCHANGED <<project, stack, files, context, previous,
                   resolveVars, analyzeVars, marshalVars, runtimeVars>>

NextProject == Begin \/ ReadDir \/ Assemble \/ Rerun \/ Generate

SpecProject == InitProject /\ [][NextProject]_vars

(***************************************************************************)
(* Claims about project assembly and emission (SpecProject)                *)
(***************************************************************************)
\* the source files of the tree the assembly extracts from: below the
\* project directory through no ignored name, with the source extension,
\* under module_root
ExtractedSources(tree, project_dir, module_root) ==
    {n \in tree :
         /\ n.kind = "file"
         /\ starts_with(n.path, project_dir)
         /\ \A i \in (Len(project_dir) + 1)..Len(n.path) : n.path[i] \notin IgnoredNames
         /\ extension(file_name(n.path)) = "py"
         /\ starts_with(n.path, module_root)}

MarkedFunctions(suite) ==
    {suite[i] : i \in {k \in 1..Len(suite) : /\ suite[k].kind = "FunctionDef"
                                              /\ has_decorator(suite[k], "mod_fn")}}

MarkedClasses(suite) ==
    {suite[i] : i \in {k \in 1..Len(suite) : /\ suite[k].kind = "ClassDef"
                                              /\ has_decorator(suite[k], "host_fns")}}

MarkedMethods(class) ==
    {class.body[i] : i \in {k \in 1..Len(class.body) :
                                /\ class.body[k].kind = "FunctionDef"
                                /\ has_decorator(class.body[k], "host_fn")}}

\* a marked function of the suite whose extraction fails
HasFailingFunction(suite) ==
    \/ \E f \in MarkedFunctions(suite) : ~ModuleFunction_try_from_ast(f).ok
    \/ \E c \in MarkedClasses(suite) :
           \E m \in MarkedMethods(c) : ~HostFunction_try_from_ast(m).ok

Parsed == pc \in {"parsed", "generated"} /\ context.some

\* C1: parse_project is fail-fast: when a source file under the module_root
\* of the project holds a marked function whose extraction fails, next to
\* valid ones in the same file or in other files, the result is an error and
\* never a ProjectContext.  Stated on the result: a ProjectContext is
\* returned only if no extracted file under its module_root holds such a
\* function.
C1_FailFast ==
    (Parsed /\ context.val.ok) =>
        \A n \in ExtractedSources(project.tree, project.project_dir,
                                  context.val.val.module_root) :
            n.parses => ~HasFailingFunction(n.suite)

\* a valid exported function and one without return annotation in one file:
\* the assembly ended with the error of the second
C1_Witness ==
    /\ Parsed
    /\ \E n \in project.tree :
           /\ n.path = ProjectDir \o <<"pkg", "a.py">>
           /\ n.suite = <<ValidFunction("f"), NoReturnFunction("g")>>
    /\ context.val = Err("Missing return type annotation for function g")

\* the same in two files: a.py is valid, b.py holds the failing function
C1_WitnessTwoFiles ==
    /\ Parsed
    /\ \E n \in project.tree :
           /\ n.path = ProjectDir \o <<"pkg", "a.py">>
           /\ n.suite = <<ValidFunction("f")>>
    /\ \E n \in project.tree :
           /\ n.path = ProjectDir \o <<"pkg", "b.py">>
           /\ n.parses
           /\ HasFailingFunction(n.suite)
    /\ ~context.val.ok

SeqRange(s) == {s[i] : i \in 1..Len(s)}

HasShim(name) ==
    \E shim \in SeqRange(unit.val.exported_functions) : shim.mod_fn_name = name

HasExternAndWrapper(name) ==
    /\ unit.val.host_functions.some
    /\ \E e \in SeqRange(unit.val.host_functions.val.extern_fns) : e.name = name
    /\ \E w \in SeqRange(unit.val.host_functions.val.hostfns) : w.pyfunction = name

\* C2: no exported or host function is silently dropped: once the unit is
\* emitted, every ModuleFunction of every Module of the context has a shim
\* and every HostFunction of every Module has an extern declaration and a
\* wrapper, and so has every marked method of every marked class of the
\* extracted files.
C2_NothingDropped ==
    pc = "generated" =>
        /\ \A m \in SeqRange(context.val.val.modules) :
               /\ \A f \in SeqRange(m.module_functions) : HasShim(f.name)
               /\ m.host_functions.some =>
                      \A h \in SeqRange(m.host_functions.val.functions) :
                          HasExternAndWrapper(h.name)
        /\ \A n \in ExtractedSources(project.tree, project.project_dir,
                                     context.val.val.module_root) :
               /\ \A f \in MarkedFunctions(n.suite) : HasShim(f.name)
               /\ \A c \in MarkedClasses(n.suite) :
                      \A h \in MarkedMethods(c) : HasExternAndWrapper(h.name)

SameUpToModuleOrder(c1, c2) ==
    /\ c1.venv_dir = c2.venv_dir
    /\ c1.site_packages_dir = c2.site_packages_dir
    /\ c1.project_dir = c2.project_dir
    /\ c1.module_root = c2.module_root
    /\ c1.module_name = c2.module_name
    /\ c1.metadata = c2.metadata
    /\ Len(c1.modules) = Len(c2.modules)
    /\ SeqRange(c1.modules) = SeqRange(c2.modules)

\* C3: assembly is deterministic: two runs of parse_project over the same
\* unchanged tree with the same options that both return a ProjectContext
\* return contexts equal up to the order of the Module list, whatever order
\* the directory entries are enumerated in.
C3_Deterministic ==
    (Parsed /\ previous.some /\ previous.val.ok /\ context.val.ok) =>
        SameUpToModuleOrder(previous.val.val, context.val.val)

(***************************************************************************)
(* Marker recognition: files of one declaration, a top-level function, a   *)
(* top-level class or a method of a marked class, under decorators of      *)
(* every shape.                                                            *)
(***************************************************************************)
\* the decorators tried for the marker of that name: the three forms, the
\* same forms under another trailing identifier, and other shapes
DecoratorShapes(name, other) ==
    {Name(name), Name(other), Name(name \o "s"),
     Attribute(Name("binmod_mdk"), name),
     Attribute(Attribute(Name("a"), "b"), name),
     Attribute(Name(name), other),
     CallExpr(Name(name), <<>>, <<>>),
     CallExpr(Attribute(Name("binmod_mdk"), name), <<>>, <<>>),
     CallExpr(Name(other), <<>>, <<>>),
     CallExpr(Attribute(Name(name), other), <<>>, <<>>),
     CallExpr(CallExpr(Name(name), <<>>, <<>>), <<>>, <<>>),
     CallExpr(Subscript(Name(name), Name("int")), <<>>, <<>>),
     Subscript(Name(name), Name("int")),
     StringLiteral(name)}

\* the arguments a host_fns marker is called with
NamespaceArguments ==
    {[args |-> <<>>, keywords |-> <<Keyword("namespace", StringLiteral("ns"))>>],
     [args |-> <<StringLiteral("ns")>>, keywords |-> <<>>],
     [args |-> <<>>, keywords |-> <<>>],
     [args |-> <<>>, keywords |-> <<Keyword("namespace", Name("NS"))>>],
     [args |-> <<Name("NS")>>, keywords |-> <<>>],
     [args |-> <<>>, keywords |-> <<Keyword("name", StringLiteral("ns"))>>],
     [args |-> <<StringLiteral("ns")>>,
      keywords |-> <<Keyword("namespace", Name("NS"))>>]}

ClassDecorators ==
    DecoratorShapes("host_fns", "host_fn")
    \cup {CallExpr(f, a.args, a.keywords) :
              f \in {Name("host_fns"), Attribute(Name("binmod_mdk"), "host_fns"),
                     Name("other")},
              a \in NamespaceArguments}

\* the decorator lists of at most two decorators
DecoratorLists(shapes) ==
    {<<>>} \cup {<<d>> : d \in shapes}
    \cup {<<d, e>> : d \in shapes, e \in {Name("other"), Name("staticmethod")}}
    \cup {<<e, d>> : d \in shapes, e \in {Name("other")}}

MarkerSuites ==
    {<<FunctionDef("f", d, <<Param("a", Some(Name("int")))>>, Some(Name("int")),
                   <<PassStmt>>)>> :
         d \in DecoratorLists(DecoratorShapes("mod_fn", "host_fn"))}
    \cup {<<ClassDef("Host", <<HostFnsMarker("ns")>>,
                     <<FunctionDef("h", d, <<Param("a", Some(Name("str")))>>,
                                   Some(NoneLiteral), <<PassStmt>>)>>)>> :
              d \in DecoratorLists(DecoratorShapes("host_fn", "mod_fn"))}
    \cup {<<ClassDef("Host", d, body)>> :
              d \in DecoratorLists(ClassDecorators)
                    \cup {<<Name("host_fns"), HostFnsMarker("ns")>>,
                          <<HostFnsMarker("ns"), Name("host_fns")>>},
              body \in {<<ValidMethod("h")>>, <<PassStmt>>}}

InitMarker ==
    /\ pc = "start"
    /\ file \in {SourceFile(<<"proj", "pkg", "util.py">>, TRUE, suite) :
                     suite \in MarkerSuites}
    /\ analysis = NoneOpt
    /\ RuntimeUnused
    /\ ResolveUnused
    /\ MarshalUnused
    /\ ProjectUnused

SpecMarker == InitMarker /\ [][NextAnalyze]_vars

(***************************************************************************)
(* Claims about marker recognition (SpecMarker)                            *)
(***************************************************************************)
\* one of the three forms of the marker of that name
IsMarkerForm(d, name) ==
    \/ d.kind = "Name" /\ d.id = name
    \/ d.kind = "Attribute" /\ d.attr = name
    \/ /\ d.kind = "Call"
       /\ \/ d.func.kind = "Name" /\ d.func.id = name
          \/ d.func.kind = "Attribute" /\ d.func.attr = name

CarriesMarker(decl, name) ==
    \E i \in 1..Len(decl.decorator_list) : IsMarkerForm(decl.decorator_list[i], name)

\* the bare-name form of a marker, with the arguments of a call-wrapped one
BareForm(d, name) ==
    IF d.kind = "Call" THEN CallExpr(Name(name), d.args, d.keywords) ELSE Name(name)

WithBareForms(decl, name) ==
    [decl EXCEPT !.decorator_list =
        [i \in 1..Len(decl.decorator_list) |->
             IF IsMarkerForm(decl.decorator_list[i], name)
             THEN BareForm(decl.decorator_list[i], name)
             ELSE decl.decorator_list[i]]]

\* the declaration with every marker in its bare-name form
BareDeclaration(decl) ==
    IF decl.kind = "FunctionDef" THEN WithBareForms(decl, "mod_fn")
    ELSE [WithBareForms(decl, "host_fns") EXCEPT !.body =
             [i \in 1..Len(decl.body) |->
                  IF decl.body[i].kind = "FunctionDef"
                  THEN WithBareForms(decl.body[i], "host_fn")
                  ELSE decl.body[i]]]

\* C11: a declaration is marked exactly when one of its decorators is the
\* bare name of the marker, an attribute access ending in it, or a call of
\* one of those: the file gives the result it gives with every marker
\* written as the bare name (the three forms are equal), a marked exported
\* function or host method is extracted, and a declaration none of whose
\* decorators has one of the three forms gives no Module.
C11_MarkerForms ==
    pc = "done" =>
        /\ analysis.val = analyze_file([file EXCEPT !.suite =
                                            <<BareDeclaration(file.suite[1])>>])
        /\ file.suite[1].kind = "FunctionDef" =>
               IF CarriesMarker(file.suite[1], "mod_fn")
               THEN /\ analysis.val.ok
                    /\ analysis.val.val.some
                    /\ Len(analysis.val.val.val.module_functions) = 1
               ELSE analysis.val = Ok(NoneOpt)
        /\ file.suite[1].kind = "ClassDef" =>
               /\ ~CarriesMarker(file.suite[1], "host_fns") => analysis.val = Ok(NoneOpt)
               /\ (/\ file.suite[1].decorator_list = <<HostFnsMarker("ns")>>
                   /\ file.suite[1].body[1].kind = "FunctionDef") =>
                      IF CarriesMarker(file.suite[1].body[1], "host_fn")
                      THEN /\ analysis.val.ok
                           /\ analysis.val.val.some
                           /\ analysis.val.val.val.host_functions.some
                      ELSE analysis.val = Ok(NoneOpt)

\* an exported function marked by a call of the qualified name was extracted
C11_Witness ==
    /\ pc = "done"
    /\ file.suite[1].kind = "FunctionDef"
    /\ file.suite[1].decorator_list =
           <<CallExpr(Attribute(Name("binmod_mdk"), "mod_fn"), <<>>, <<>>)>>
    /\ analysis.val.ok
    /\ analysis.val.val.some
    /\ analysis.val.val.val.module_functions[1].name = "f"

\* the host_fns marker of the class supplies a literal string namespace
SuppliesNamespace(d) ==
    /\ d.kind = "Call"
    /\ IF \E i \in 1..Len(d.keywords) : d.keywords[i].arg = "namespace"
       THEN \E i \in 1..Len(d.keywords) :
                /\ d.keywords[i].arg = "namespace"
                /\ d.keywords[i].value.kind = "StringLiteral"
                /\ \A k \in 1..(i - 1) : d.keywords[k].arg # "namespace"
       ELSE Len(d.args) > 0 /\ d.args[1].kind = "StringLiteral"

\* C12: a top-level class that carries the host-functions marker, none of
\* whose markers supplies a literal string namespace argument (not
\* call-wrapped, argument absent, or not a string literal), makes
\* analyze_file fail, with or without marked methods in the class: it is not
\* skipped and no default namespace is taken.
C12_MissingNamespaceIsError ==
    (/\ pc = "done"
     /\ file.suite[1].kind = "ClassDef"
     /\ CarriesMarker(file.suite[1], "host_fns")
     /\ \A i \in 1..Len(file.suite[1].decorator_list) :
            IsMarkerForm(file.suite[1].decorator_list[i], "host_fns")
                => ~SuppliesNamespace(file.suite[1].decorator_list[i]))
        => analysis.val = Err("Missing 'namespace' argument in host_fns decorator")

\* a class marked by the bare name, with a marked method: the error
C12_Witness ==
    /\ pc = "done"
    /\ file.suite = <<ClassDef("Host", <<Name("host_fns")>>, <<ValidMethod("h")>>)>>
    /\ analysis.val = Err("Missing 'namespace' argument in host_fns decorator")

(***************************************************************************)
(* The projects the layout resolver is run on: a pyproject.toml with or    *)
(* without an override block, environments under the four names and at an  *)
(* absolute path, and packages, single modules and stray package-init      *)
(* files under the import root, which is src when that directory exists.   *)
(***************************************************************************)
LayoutRoot(py2binmod) ==
    {Dir(<<"/">>), Dir(ProjectDir),
     TomlFile(ProjectDir \o <<"pyproject.toml">>,
              Toml(Some([name |-> "demo", version |-> "0.1.0"]), py2binmod))}

EmptySource(path) == SourceFile(path, TRUE, <<PassStmt>>)

\* an environment with one interpreter and one installed package
EnvironmentAt(path) ==
    {Dir(path), Dir(path \o <<"lib">>), Dir(path \o <<"lib", "python3.11">>),
     Dir(path \o <<"lib", "python3.11", "site-packages">>),
     Dir(path \o <<"lib", "python3.11", "site-packages", "dep">>),
     EmptySource(path \o <<"lib", "python3.11", "site-packages", "dep",
                           "__init__.py">>)}

AbsoluteVenv == <<"/", "opt", "venv">>

LayoutItemNames ==
    {"pkg", "other", "nested", "sub", "init", "mod", "alt", "both", "ignored"}

\* what one item puts under the import root
LayoutItem(root, item) ==
    CASE item = "pkg" ->
             {Dir(root \o <<"pkg">>), EmptySource(root \o <<"pkg", "__init__.py">>),
              EmptySource(root \o <<"pkg", "util.py">>)}
      [] item = "other" ->
             {Dir(root \o <<"other">>), EmptySource(root \o <<"other", "__init__.py">>)}
      [] item = "nested" ->
             {Dir(root \o <<"tools">>), Dir(root \o <<"tools", "gen">>),
              EmptySource(root \o <<"tools", "gen", "__init__.py">>)}
      [] item = "sub" ->
             {Dir(root \o <<"pkg">>), Dir(root \o <<"pkg", "sub">>),
              EmptySource(root \o <<"pkg", "sub", "__init__.py">>)}
      [] item = "init" -> {EmptySource(root \o <<"__init__.py">>)}
      [] item = "mod" -> {EmptySource(root \o <<"mod.py">>)}
      [] item = "alt" -> {EmptySource(root \o <<"alt.py">>)}
      [] item = "both" -> {EmptySource(root \o <<"pkg.py">>)}
      [] item = "ignored" ->
             {Dir(root \o <<"build">>), EmptySource(root \o <<"build", "__init__.py">>)}

LayoutItems(root, items) == UNION {LayoutItem(root, item) : item \in items}

\* the items under src when with_src, else under the project directory
LayoutTree(py2binmod, environments, with_src, items) ==
    LayoutRoot(py2binmod)
    \cup UNION {EnvironmentAt(e) : e \in environments}
    \cup (IF with_src
          THEN {Dir(ProjectDir \o <<"src">>)} \cup LayoutItems(ProjectDir \o <<"src">>, items)
          ELSE LayoutItems(ProjectDir, items))

MaxItems == 2
MaxEnvironments == 2

ProjectEnvironments ==
    {ProjectDir \o <<VenvNames[i]>> : i \in 1..Len(VenvNames)}

ModuleHints == {"pkg", "pkg.py", "pkg.py.py", "mod", "missing"}

VenvHints == {<<"env">>, <<".env">>, AbsoluteVenv, <<"missing">>}

OptionalOf(S) == {NoneOpt} \cup {Some(x) : x \in S}

\* the three hints given by the caller, by the override block, or by both
PriorityProjects ==
    {Project(LayoutTree(block,
                        {ProjectDir \o <<"venv">>, ProjectDir \o <<"env">>}, TRUE,
                        {"pkg", "mod", "alt"})
                 \cup {Dir(ProjectDir \o <<"lib">>)}
                 \cup LayoutItems(ProjectDir \o <<"lib">>, {"pkg", "mod", "alt"}),
             ProjectDir, ProjectParserOptions(v, r, m)) :
         block \in OptionalOf({Py2BinmodConfig(bv, br, bm) :
                                   bv \in OptionalOf({<<"env">>}),
                                   br \in OptionalOf({<<"lib">>}),
                                   bm \in OptionalOf({"alt"})}),
         v \in OptionalOf({<<"venv">>}),
         r \in OptionalOf({<<"src">>}),
         m \in OptionalOf({"mod"})}

LayoutProjects ==
    {Project(LayoutTree(NoneOpt, {ProjectDir \o <<".venv">>}, with_src, items),
             ProjectDir, NoOverride) :
         with_src \in BOOLEAN, items \in SubsetsUpTo(LayoutItemNames, MaxItems)}
    \cup {Project(LayoutTree(NoneOpt, {ProjectDir \o <<"env">>}, with_src, items),
                  ProjectDir, NoOverride) :
              with_src \in BOOLEAN, items \in {{"pkg"}, {}}}
    \cup {Project(LayoutTree(block, {ProjectDir \o <<".venv">>}, with_src, items),
                  ProjectDir, ProjectParserOptions(NoneOpt, NoneOpt, m)) :
              block \in {NoneOpt},
              with_src \in BOOLEAN,
              items \in {{}, {"pkg"}, {"pkg", "both"}, {"mod"}, {"pkg", "other"},
                         {"both"}, {"sub"}},
              m \in OptionalOf(ModuleHints)}
    \cup {Project(LayoutTree(NoneOpt, environments \cup {AbsoluteVenv}, FALSE, items),
                  ProjectDir, ProjectParserOptions(v, NoneOpt, m)) :
              environments \in SubsetsUpTo(ProjectEnvironments, MaxEnvironments),
              items \in {{"pkg"}},
              v \in OptionalOf(VenvHints),
              m \in OptionalOf({"missing"})}
    \cup PriorityProjects

InitLayout ==
    /\ pc = "start"
    /\ project \in LayoutProjects
    /\ stack = <<>>
    /\ files = <<>>
    /\ context = NoneOpt
    /\ previous = NoneOpt
    /\ unit = NoneOpt
    /\ RuntimeUnused
    /\ ResolveUnused
    /\ AnalyzeUnused
    /\ MarshalUnused

SpecLayout == InitLayout /\ [][NextProject]_vars


(***************************************************************************)
(* Claims about the layout (SpecLayout).  Every project of SpecLayout has  *)
(* its metadata and only sources that are analyzed without error, so an    *)
(* error of parse_project is the error of resolve.                         *)
(***************************************************************************)
\* the override block of the pyproject.toml of the project
OverrideBlock ==
    node_at(project.tree, project.project_dir \o <<"pyproject.toml">>).toml.py2binmod

\* caller override when present, else the value of the override block when
\* present, else absent
PriorityHint(override, block_value) ==
    IF override.some THEN override
    ELSE IF OverrideBlock.some THEN block_value
    ELSE NoneOpt

VenvHint ==
    PriorityHint(project.options.venv_override,
                 IF OverrideBlock.some THEN OverrideBlock.val.venv ELSE NoneOpt)

ModuleRootHint ==
    PriorityHint(project.options.module_root_override,
                 IF OverrideBlock.some THEN OverrideBlock.val.module_root ELSE NoneOpt)

ModuleHint ==
    PriorityHint(project.options.module_override,
                 IF OverrideBlock.some THEN OverrideBlock.val.module ELSE NoneOpt)

AtProject(p) == IF p[1] = "/" THEN p ELSE project.project_dir \o p

\* the import root: the hint, else project_dir/src when that directory
\* exists, else project_dir
ImportRoot ==
    IF ModuleRootHint.some THEN AtProject(ModuleRootHint.val)
    ELSE IF Dir(project.project_dir \o <<"src">>) \in project.tree
         THEN project.project_dir \o <<"src">>
         ELSE project.project_dir

\* the environment directory: the hint, else the first of the four names
\* that is a directory of the project
EnvironmentDir ==
    IF VenvHint.some THEN Some(AtProject(VenvHint.val))
    ELSE IF Dir(project.project_dir \o <<"venv">>) \in project.tree
         THEN Some(project.project_dir \o <<"venv">>)
    ELSE IF Dir(project.project_dir \o <<".venv">>) \in project.tree
         THEN Some(project.project_dir \o <<".venv">>)
    ELSE IF Dir(project.project_dir \o <<"env">>) \in project.tree
         THEN Some(project.project_dir \o <<"env">>)
    ELSE IF Dir(project.project_dir \o <<".env">>) \in project.tree
         THEN Some(project.project_dir \o <<".env">>)
    ELSE NoneOpt

\* the environment directory is there, with a site-packages directory
ValidEnvironment ==
    /\ EnvironmentDir.some
    /\ Dir(EnvironmentDir.val \o <<"lib">>) \in project.tree
    /\ \E n \in project.tree :
           /\ n.kind = "dir"
           /\ Len(n.path) = Len(EnvironmentDir.val) + 3
           /\ starts_with(n.path, EnvironmentDir.val \o <<"lib">>)
           /\ StartsWith(n.path[Len(n.path) - 1], "python")
           /\ file_name(n.path) = "site-packages"

\* the top-level directories under the import root that directly hold a
\* package-init file among the discovered files
PackageDirs ==
    {d \in {files[i][Len(ImportRoot) + 1] :
                i \in {k \in 1..Len(files) : /\ starts_with(files[k], ImportRoot)
                                             /\ Len(files[k]) > Len(ImportRoot)}} :
         \E i \in 1..Len(files) : files[i] = ImportRoot \o <<d, "__init__.py">>}

NoHints == ~VenvHint.some /\ ~ModuleRootHint.some /\ ~ModuleHint.some

\* C13: with no hints and a valid environment, if exactly one top-level
\* directory under the import root directly contains a package-init file,
\* the result has module_root = import_root/<dir> and module_name = <dir>,
\* whatever other discovered files lie under the import root.
C13_UnambiguousTreeResolves ==
    (Parsed /\ NoHints /\ ValidEnvironment /\ Cardinality(PackageDirs) = 1) =>
        /\ context.val.ok
        /\ \A d \in PackageDirs :
               /\ context.val.val.module_root = ImportRoot \o <<d>>
               /\ context.val.val.module_name = d

\* C14: with no module hint, if the set of top-level package directories
\* under the import root is empty or has two or more members, no layout is
\* returned, and the error is MissingModule (once the environment is found,
\* which resolve does first); a layout returned without a module hint is
\* the one of the only package directory.
C14_NeverGuesses ==
    (Parsed /\ ~ModuleHint.some) =>
        /\ Cardinality(PackageDirs) # 1 =>
               /\ ~context.val.ok
               /\ ValidEnvironment => context.val = Err("MissingModule")
        /\ context.val.ok => PackageDirs = {context.val.val.module_name}

\* two package directories under src, no hint: MissingModule
C14_Witness ==
    /\ Parsed
    /\ NoHints
    /\ ImportRoot = ProjectDir \o <<"src">>
    /\ PackageDirs = {"pkg", "other"}
    /\ context.val = Err("MissingModule")

\* no package directory at all, no hint: MissingModule
C14_WitnessEmpty ==
    /\ Parsed
    /\ NoHints
    /\ ValidEnvironment
    /\ PackageDirs = {}
    /\ context.val = Err("MissingModule")

C15_WitnessCandidates ==
    /\ Parsed
    /\ ModuleHint = Some("pkg")
    /\ PackageDirs = {"pkg", "other"}
    /\ context.val.ok
    /\ context.val.val.module_root = ImportRoot \o <<"pkg">>

\* C16: the environment dir of a returned layout is the hint, as it is when
\* absolute and joined to project_dir when relative, else the first existing
\* directory among venv, .venv, env, .env under project_dir; when there is
\* no hint and none of the four exists the error is the missing-environment
\* one, whatever the module resolution would have given, and it is the
\* error in no other case.
C16_EnvironmentDir ==
    Parsed =>
        /\ context.val.ok => context.val.val.venv_dir = EnvironmentDir.val
        /\ ~EnvironmentDir.some <=> context.val = Err("MissingVirtualEnv")

\* venv and .venv both there, no hint: venv
C16_Witness ==
    /\ Parsed
    /\ ~VenvHint.some
    /\ Dir(ProjectDir \o <<"venv">>) \in project.tree
    /\ Dir(ProjectDir \o <<".venv">>) \in project.tree
    /\ context.val.ok
    /\ context.val.val.venv_dir = ProjectDir \o <<"venv">>

\* no environment and a module hint that names nothing: the environment error
C16_WitnessMissing ==
    /\ Parsed
    /\ ~VenvHint.some
    /\ ModuleHint = Some("missing")
    /\ context.val = Err("MissingVirtualEnv")

\* an absolute hint next to an environment of the project: the hint
C16_WitnessAbsolute ==
    /\ Parsed
    /\ VenvHint = Some(AbsoluteVenv)
    /\ Dir(ProjectDir \o <<".venv">>) \in project.tree
    /\ context.val.ok
    /\ context.val.val.venv_dir = AbsoluteVenv

\* C17: each of the three hints handed to the resolver is the caller
\* override when present, else the value of the metadata override block
\* when present, else absent, each hint on its own; a returned layout has
\* its environment, import root and module name from those hints.
C17_HintPriority ==
    Parsed =>
        /\ hints_of(project.options, parse_metadata(project.tree, project.project_dir).val)
               = LayoutHints(VenvHint, ModuleRootHint, ModuleHint)
        /\ context.val.ok =>
               /\ VenvHint.some => context.val.val.venv_dir = AtProject(VenvHint.val)
               /\ ModuleRootHint.some =>
                      starts_with(context.val.val.module_root,
                                  AtProject(ModuleRootHint.val))
               /\ ModuleHint.some =>
                      context.val.val.module_name = trim_end_matches(ModuleHint.val, ".py")

\* the caller gives the environment only, the block all three: the caller's
\* environment with the block's import root and module
C17_Witness ==
    /\ Parsed
    /\ project.options = ProjectParserOptions(Some(<<"venv">>), NoneOpt, NoneOpt)
    /\ OverrideBlock = Some(Py2BinmodConfig(Some(<<"env">>), Some(<<"lib">>), Some("alt")))
    /\ context.val.ok
    /\ context.val.val.venv_dir = ProjectDir \o <<"venv">>
    /\ context.val.val.module_root = ProjectDir \o <<"lib">>
    /\ context.val.val.module_name = "alt"


(***************************************************************************)
(* The projects the import paths are derived on: a package with exported   *)
(* functions in its __init__.py, in a module, and in the __init__.py and a  *)
(* module of a sub-package; and single modules named by a module hint.     *)
(***************************************************************************)
\* a source with one exported function of that name, or with none
Exporting(path, name, exports) ==
    SourceFile(path, TRUE, IF exports THEN <<ValidFunction(name)>> ELSE <<PassStmt>>)

ImportPackage(root, init, a, sub_init, sub_mod) ==
    {Dir(root \o <<"pkg">>), Dir(root \o <<"pkg", "sub">>),
     Exporting(root \o <<"pkg", "__init__.py">>, "in_init", init),
     Exporting(root \o <<"pkg", "a.py">>, "in_a", a),
     Exporting(root \o <<"pkg", "sub", "__init__.py">>, "in_sub_init", sub_init),
     Exporting(root \o <<"pkg", "sub", "mod.py">>, "in_sub_mod", sub_mod)}

ImportProjects ==
    {Project(LayoutRoot(NoneOpt) \cup EnvironmentAt(ProjectDir \o <<".venv">>)
                 \cup (IF with_src THEN {Dir(ProjectDir \o <<"src">>)} ELSE {})
                 \cup ImportPackage(IF with_src THEN ProjectDir \o <<"src">>
                                    ELSE ProjectDir,
                                    init, a, sub_init, sub_mod),
             ProjectDir, NoOverride) :
         with_src \in BOOLEAN, init \in BOOLEAN, a \in BOOLEAN,
         sub_init \in BOOLEAN, sub_mod \in BOOLEAN}
    \cup {Project(LayoutRoot(NoneOpt) \cup EnvironmentAt(ProjectDir \o <<".venv">>)
                      \cup {Exporting(ProjectDir \o <<"mod.py">>, "in_mod", TRUE),
                            Exporting(ProjectDir \o <<"alt.py">>, "in_alt", alt)},
                  ProjectDir, ProjectParserOptions(NoneOpt, NoneOpt, Some("mod.py"))) :
              alt \in BOOLEAN}

InitImport ==
    /\ pc = "start"
    /\ project \in ImportProjects
    /\ stack = <<>>
    /\ files = <<>>
    /\ context = NoneOpt
    /\ previous = NoneOpt
    /\ unit = NoneOpt
    /\ RuntimeUnused
    /\ ResolveUnused
    /\ AnalyzeUnused
    /\ MarshalUnused

SpecImport == InitImport /\ [][NextProject]_vars

(***************************************************************************)
(* Claims about the import paths of the shims (SpecImport)                 *)
(***************************************************************************)
\* the components of the file relative to module_root, the last one without
\* its source extension, without the last one when it is the package-init
\* name
DottedComponents(file_path, module_root) ==
    LET relative == SubSeq(file_path, Len(module_root) + 1, Len(file_path))
        last == relative[Len(relative)]
        stem == IF Len(last) >= 3 /\ SubSeq(last, Len(last) - 2, Len(last)) = ".py"
                THEN SubSeq(last, 1, Len(last) - 3) ELSE last
    IN  IF stem = "__init__" THEN SubSeq(relative, 1, Len(relative) - 1)
        ELSE SubSeq(relative, 1, Len(relative) - 1) \o <<stem>>

RECURSIVE Dotted(_, _)
Dotted(name, components) ==
    IF Len(components) = 0 THEN name
    ELSE Dotted(name \o "." \o Head(components), Tail(components))

\* C18: every exported function of a Module under module_root has its shim
\* import the top-level module name followed by the components of the file
\* relative to module_root, the source extension stripped from the last one
\* and a last package-init component dropped, joined by '.': sub/mod.py
\* gives pkg.sub.mod, __init__.py gives pkg, sub/__init__.py gives pkg.sub.
C18_DottedPath ==
    pc = "generated" =>
        \A i \in 1..Len(context.val.val.modules) :
            \A k \in 1..Len(context.val.val.modules[i].module_functions) :
                \E shim \in SeqRange(unit.val.exported_functions) :
                    /\ shim.mod_fn_name =
                           context.val.val.modules[i].module_functions[k].name
                    /\ shim.import_path =
                           Dotted(context.val.val.module_name,
                                  DottedComponents(context.val.val.modules[i].file_path,
                                                   context.val.val.module_root))
                    /\ shim.mod_fn_name = "in_init" => shim.import_path = "pkg"
                    /\ shim.mod_fn_name = "in_a" => shim.import_path = "pkg.a"
                    /\ shim.mod_fn_name = "in_sub_init" => shim.import_path = "pkg.sub"
                    /\ shim.mod_fn_name = "in_sub_mod" => shim.import_path = "pkg.sub.mod"

\* a unit with the shims of all four files of the package under src
C18_Witness ==
    /\ pc = "generated"
    /\ context.val.val.module_root = ProjectDir \o <<"src", "pkg">>
    /\ {<<shim.mod_fn_name, shim.import_path>> :
            shim \in SeqRange(unit.val.exported_functions)}
           = {<<"in_init", "pkg">>, <<"in_a", "pkg.a">>, <<"in_sub_init", "pkg.sub">>,
              <<"in_sub_mod", "pkg.sub.mod">>}


(***************************************************************************)
(* The projects the walk is run on: a package next to version-control,     *)
(* cache and build directories and compiled artifacts.                     *)
(***************************************************************************)
\* a file that is no source
OtherFile(path) == SourceFile(path, FALSE, <<>>)

ArtifactNames == {"pyc", "so", "cache", "git", "egg", "dist"}

Artifact(name) ==
    CASE name = "pyc" -> {OtherFile(ProjectDir \o <<"pkg", "util.pyc">>)}
      [] name = "so" -> {OtherFile(ProjectDir \o <<"pkg", "native.so">>)}
      [] name = "cache" ->
             {Dir(ProjectDir \o <<"pkg", "__pycache__">>),
              OtherFile(ProjectDir \o <<"pkg", "__pycache__", "util.cpython-311.pyc">>)}
      [] name = "git" ->
             {Dir(ProjectDir \o <<".git">>), OtherFile(ProjectDir \o <<".git", "config">>)}
      [] name = "egg" ->
             {Dir(ProjectDir \o <<"demo.egg-info">>),
              OtherFile(ProjectDir \o <<"demo.egg-info", "PKG-INFO">>)}
      [] name = "dist" ->
             {Dir(ProjectDir \o <<"dist">>),
              OtherFile(ProjectDir \o <<"dist", "demo.whl">>)}

MaxArtifacts == 2

WalkProjects ==
    {Project(LayoutTree(NoneOpt, {ProjectDir \o <<".venv">>}, FALSE, {"pkg"})
                 \cup UNION {Artifact(a) : a \in artifacts},
             ProjectDir, NoOverride) :
         artifacts \in SubsetsUpTo(ArtifactNames, MaxArtifacts)}

InitWalk ==
    /\ pc = "start"
    /\ project \in WalkProjects
    /\ stack = <<>>
    /\ files = <<>>
    /\ context = NoneOpt
    /\ previous = NoneOpt
    /\ unit = NoneOpt
    /\ RuntimeUnused
    /\ ResolveUnused
    /\ AnalyzeUnused
    /\ MarshalUnused

SpecWalk == InitWalk /\ [][NextProject]_vars

(***************************************************************************)
(* Claims about file discovery (SpecWalk)                                  *)
(***************************************************************************)
\* the directory names of the ignore list: virtual environments, caches,
\* version control, build output
IgnoredDirectories ==
    {".venv", "venv", "__pycache__", ".mypy_cache", ".ruff_cache", ".pytest_cache",
     ".git", ".hg", ".svn", "node_modules", "dist", "build"}

\* the compiled-artifact extensions of the ignore list
IgnoredExtensions == {".pyc", ".pyo", ".pyd", ".so", ".dll", ".dylib", ".egg-info"}

HasExtension(name, ext) ==
    Len(name) > Len(ext) /\ SubSeq(name, Len(name) - Len(ext) + 1, Len(name)) = ext

\* C19: no path the walk returns has, below the root, a component that is a
\* directory name of the ignore list, and no returned file has a
\* compiled-artifact extension of the ignore list.
C19_IgnorePolicy ==
    \A i \in 1..Len(files) :
        /\ \A k \in (Len(project.project_dir) + 1)..Len(files[i]) :
               files[i][k] \notin IgnoredDirectories
        /\ \A ext \in IgnoredExtensions : ~HasExtension(file_name(files[i]), ext)


(***************************************************************************)
(* The two conversions on their own: rs_to_py on a native argument, and    *)
(* py_to_rs on the object an interpreter function returned, which can be   *)
(* of any class.                                                           *)
(***************************************************************************)
ReturnedObjects ==
    {PyNone, PyBool(TRUE), PyInt(1), PyFloat(3), PyStr("a"),
     PyList(<<PyInt(1), PyInt(2)>>), PyList(<<PyStr("a")>>),
     PyList(<<PyObject("set")>>),
     PyDict({<<PyStr("a"), PyInt(1)>>}), PyDict({<<PyInt(1), PyStr("a")>>}),
     PyDict({<<PyFloat(3), PyInt(1)>>}),
     PyObject("set"), PyObject("Foo")}

InitConvert ==
    \/ InitMarshal
    \/ /\ pc = "interpreter"
       /\ ptype \in {pt \in MarshalTypes : deserialize_owned(as_token_stream(pt))}
       /\ native = Unused
       /\ py_obj \in {Ok(obj) : obj \in ReturnedObjects}
       /\ deserialized = NoneOpt
       /\ RuntimeUnused
       /\ ResolveUnused
       /\ AnalyzeUnused
       /\ ProjectUnused

SpecConvert == InitConvert /\ [][NextMarshal]_vars

(***************************************************************************)
(* Claims about the error categories of the conversions (SpecConvert)      *)
(***************************************************************************)
\* C20: every failure of rs_to_py has the category SerializationError and
\* every failure of py_to_rs has the category DeserializationError.
C20_CategoryByDirection ==
    /\ (pc = "interpreter" /\ ~py_obj.ok) =>
           py_obj.err.error_type = "SerializationError"
    /\ (pc = "done" /\ ~deserialized.ok) =>
           deserialized.err.error_type = "DeserializationError"


(***************************************************************************)
(* The emitted unit at run time (codegen/lib_rs.rs, the quoted items):     *)
(* the host's workers call the exported functions of the unit, each call   *)
(* goes through the thread-local INTERPRETER and the steps of the shim     *)
(* body, and the interpreter raises or returns as it pleases.              *)
(***************************************************************************)
MaxWorkers == 2

Workers == 1..MaxWorkers

\* a static in the place of the thread_local!: one slot for the process
process_wide(worker) == 1

\* thread_local!: every worker has a slot of its own
thread_local(worker) == worker

\* the slot before its first use, and Interpreter::with_init on that use
Uninitialized == [state |-> "uninit", inits |-> 0, entered_by |-> {}, registered |-> {}]

with_init(slot, worker) ==
    [state |-> "ready",
     inits |-> IF slot.state = "uninit" THEN slot.inits + 1 ELSE slot.inits,
     entered_by |-> slot.entered_by \cup {worker},
     registered |-> slot.registered]

\* an exception of the interpreter, and its translation
PyException(class, trace) == [class |-> class, trace |-> trace]

from_py_exc(exc) == ModuleFnErr(exc.class, exc.trace)

\* a worker that is in no call
Idle == [at |-> "idle", shim |-> 0, args |-> <<>>, trace |-> <<>>,
         object |-> NoneOpt, result |-> NoneOpt]

\* the call went on to the next step
proceed(c, step, next) == [c EXCEPT !.at = next, !.trace = Append(@, step)]

\* the same return with the steps that come after still run
return_late(c, step, result) ==
    [c EXCEPT !.at = "returned", !.trace = Append(Append(@, step), "invoke"),
              !.result = Some(result), !.args = <<>>, !.object = NoneOpt]

\* the call returned at this step
return(c, step, result) ==
    [c EXCEPT !.at = "returned", !.trace = Append(@, step), !.result = Some(result),
              !.args = <<>>, !.object = NoneOpt]

\* the arguments a shim can be called with
ArgumentsOf(params) ==
    {args \in [1..Len(params) -> UNION {Values(params[i].type) : i \in 1..Len(params)}] :
         \A i \in 1..Len(params) : args[i] \in Values(params[i].type)}

\* the call arguments of the shim body: rs_to_py of each parameter, in order
RECURSIVE call_args(_)
call_args(args) ==
    IF Len(args) = 0 THEN Ok(<<>>)
    ELSE AndThen(rs_to_py(Head(args)), LAMBDA first :
         AndThen(call_args(Tail(args)), LAMBDA rest : Ok(<<first>> \o rest)))

\* what an interpreter function can return
CallResults == {PyInt(1), PyObject("Foo")}

\* the units under study: two exported functions, one of them returning
\* nothing, with and without a host-functions class
RuntimeSuites ==
    {<<ValidFunction("f"),
       FunctionDef("g", <<ModFnMarker>>, <<>>, Some(NoneLiteral), <<PassStmt>>)>>,
     <<ValidFunction("f"),
       FunctionDef("g", <<ModFnMarker>>, <<>>, Some(NoneLiteral), <<PassStmt>>),
       ValidClass("ns1", <<"h1">>)>>}

RuntimeContexts ==
    {ProjectContext(
         LayoutResult(ProjectDir \o <<".venv">>,
                      ProjectDir \o <<".venv", "lib", "python3.11", "site-packages">>,
                      ProjectDir \o <<"pkg">>, "pkg"),
         ProjectDir,
         [name |-> "demo", version |-> "0.1.0", py2binmod |-> NoneOpt],
         <<analyze_file(SourceFile(ProjectDir \o <<"pkg", "a.py">>, TRUE, suite)).val.val>>) :
         suite \in RuntimeSuites}

InitRuntime ==
    /\ pc = "run"
    /\ unit \in {Some(generate(ctx)) : ctx \in RuntimeContexts}
    /\ INTERPRETER = [slot \in Workers |-> Uninitialized]
    /\ call = [worker \in Workers |-> Idle]
    /\ project = Unused /\ stack = Unused /\ files = Unused
    /\ context = Unused /\ previous = Unused
    /\ ResolveUnused
    /\ AnalyzeUnused
    /\ MarshalUnused

\* the host calls an exported function of the unit on a worker: the
\* initialization hook (0) or one of the shims
Invoke(worker) ==
    /\ call[worker].at \in {"idle", "returned"}
    /\ \E shim \in 0..Len(unit.val.exported_functions) :
           \E args \in IF shim = 0 THEN {<<>>}
                       ELSE ArgumentsOf(unit.val.exported_functions[shim].params) :
               call' = [call EXCEPT ![worker] =
                            [Idle EXCEPT !.at = "with", !.shim = shim, !.args = args]]
    /\ UNCHANGED <<pc, INTERPRETER, resolveVars, analyzeVars, marshalVars, projectVars>>

\* INTERPRETER.with(|interpreter| interpreter.enter(|vm| ...))
With(worker) ==
    /\ call[worker].at = "with"
    /\ INTERPRETER' = [INTERPRETER EXCEPT ![thread_local(worker)] = with_init(@, worker)]
    /\ call' = [call EXCEPT ![worker] =
                    proceed(@, "acquire", IF @.shim = 0 THEN "register" ELSE "import")]
    /\ UNCHANGED <<pc, resolveVars, analyzeVars, marshalVars, projectVars>>

\* vm.import(import_path, 0).map_err(from_py_exc)?
Import(worker) ==
    /\ call[worker].at = "import"
    /\ \/ call' = [call EXCEPT ![worker] = proceed(@, "import", "get_attr")]
       \/ call' = [call EXCEPT ![worker] =
                       return(@, "import",
                              Err(from_py_exc(PyException("ModuleNotFoundError",
                                                          "No module named"))))]
    /\ UNCHANGED <<pc, INTERPRETER, resolveVars, analyzeVars, marshalVars, projectVars>>

\* .get_attr(mod_fn_name, vm).map_err(from_py_exc)?
GetAttr(worker) ==
    /\ call[worker].at = "get_attr"
    /\ \/ call' = [call EXCEPT ![worker] = proceed(@, "lookup", "call_args")]
       \/ call' = [call EXCEPT ![worker] =
                       return(@, "lookup",
                              Err(from_py_exc(PyException("AttributeError",
                                                          "has no attribute"))))]
    /\ UNCHANGED <<pc, INTERPRETER, resolveVars, analyzeVars, marshalVars, projectVars>>

\* the call arguments: (rs_to_py(vm, a)?, ...)
CallArgs(worker) ==
    /\ call[worker].at = "call_args"
    /\ call' = [call EXCEPT ![worker] =
                    IF call_args(@.args).ok THEN proceed(@, "marshal_in", "call")
                    ELSE return(@, "marshal_in", call_args(@.args))]
    /\ UNCHANGED <<pc, INTERPRETER, resolveVars, analyzeVars, marshalVars, projectVars>>

\* .call(call_args, vm).map_err(from_py_exc)?, and Ok(()) in the unit body
Call(worker) ==
    /\ call[worker].at = "call"
    /\ \/ call' = [call EXCEPT ![worker] =
                       return(@, "invoke",
                              Err(from_py_exc(PyException("ValueError", "Traceback"))))]
       \/ \E obj \in CallResults :
              call' = [call EXCEPT ![worker] =
                           IF unit.val.exported_functions[@.shim].unit_body
                           THEN return(@, "invoke", Ok(UnitValue))
                           ELSE [proceed(@, "invoke", "py_to_rs") EXCEPT
                                     !.object = Some(obj)]]
    /\ UNCHANGED <<pc, INTERPRETER, resolveVars, analyzeVars, marshalVars, projectVars>>

\* Ok(py_to_rs::<return_type>(vm, ...)?)
MarshalOut(worker) ==
    /\ call[worker].at = "py_to_rs"
    /\ call' = [call EXCEPT ![worker] =
                    return(@, "marshal_out",
                           py_to_rs(unit.val.exported_functions[@.shim].return_type,
                                    @.object.val))]
    /\ UNCHANGED <<pc, INTERPRETER, resolveVars, analyzeVars, marshalVars, projectVars>>

\* the body of initialize_impl: _register_host_fns(namespace, hostfns)
Initialize(worker) ==
    /\ call[worker].at = "register"
    /\ \/ /\ call' = [call EXCEPT ![worker] = return(@, "register", Ok(UnitValue))]
          /\ INTERPRETER' =
                 [INTERPRETER EXCEPT ![thread_local(worker)].registered =
                      @ \cup {unit.val.initialize.namespace}]
       \/ /\ call' = [call EXCEPT ![worker] =
                          return(@, "register",
                                 Err(from_py_exc(PyException("ModuleNotFoundError",
                                                             "No module named"))))]
          /\ UNCHANGED INTERPRETER
    /\ UNCHANGED <<pc, resolveVars, analyzeVars, marshalVars, projectVars>>

NextRuntime ==
    \E worker \in Workers :
        \/ Invoke(worker)
        \/ With(worker)
        \/ Import(worker)
        \/ GetAttr(worker)
        \/ CallArgs(worker)
        \/ Call(worker)
        \/ MarshalOut(worker)
        \/ Initialize(worker)

SpecRuntime == InitRuntime /\ [][NextRuntime]_vars


(***************************************************************************)
(* Claims about the emitted unit at run time (SpecRuntime)                 *)
(***************************************************************************)
\* the worker is in a shim that has invoked interpreter code
InShimPastImport(worker) ==
    /\ call[worker].shim # 0
    /\ \E i \in 1..Len(call[worker].trace) : call[worker].trace[i] = "import"

\* C21: before a shim on a worker invokes interpreter code, the native
\* capability module has been bound under the recorded namespace in that
\* worker's interpreter, whatever calls the host has made.
C21_BoundBeforeFirstShim ==
    \A worker \in Workers :
        InShimPastImport(worker) =>
            unit.val.initialize.namespace \in INTERPRETER[worker].registered

\* the worker has acquired an interpreter at least once
HasAcquired(worker) ==
    \/ call[worker].at = "returned"
    \/ \E i \in 1..Len(call[worker].trace) : call[worker].trace[i] = "acquire"

\* C22: under any interleaving of the calls of several workers, each worker
\* uses an interpreter instance of its own, created on its first use and
\* not before, initialized exactly once, and no instance is entered by two
\* different workers.
C22_Confinement ==
    /\ \A slot \in Workers :
           /\ INTERPRETER[slot].inits <= 1
           /\ Cardinality(INTERPRETER[slot].entered_by) <= 1
           /\ INTERPRETER[slot].state = "ready" <=> INTERPRETER[slot].entered_by # {}
           /\ INTERPRETER[slot].state = "ready" <=> INTERPRETER[slot].inits = 1
    /\ \A worker \in Workers :
           HasAcquired(worker) =>
               \E slot \in Workers : /\ INTERPRETER[slot].entered_by = {worker}
                                      /\ INTERPRETER[slot].state = "ready"

\* two workers inside their shims at once, each in an interpreter of its own
C22_Witness ==
    /\ call[1].at = "call" /\ call[2].at = "call"
    /\ INTERPRETER[1].entered_by = {1} /\ INTERPRETER[2].entered_by = {2}
    /\ INTERPRETER[1].inits = 1 /\ INTERPRETER[2].inits = 1

\* a second call on a worker: the interpreter is still initialized once
C22_WitnessSecondCall ==
    /\ call[1].at = "import"
    /\ call[1].shim = 2
    /\ INTERPRETER[1].registered # {}
    /\ INTERPRETER[1].inits = 1
    /\ INTERPRETER[2].state = "uninit"

ShimSteps == <<"acquire", "import", "lookup", "marshal_in", "invoke", "marshal_out">>

ExceptionClasses == {"ModuleNotFoundError", "AttributeError", "ValueError"}

IsTranslatedException(result) ==
    /\ ~result.ok
    /\ result.err.error_type \in ExceptionClasses
    /\ result.err.message \in {"No module named", "has no attribute", "Traceback"}

\* C23: a shim runs its steps in the order acquire, import, lookup, marshal
\* the arguments in, invoke and, for a non-unit return, marshal the result
\* out; a call that returned at the import, the lookup or a raising invoke
\* ran no later step and returned an error with the class name and the
\* rendered trace of the exception, and a call that returned a value ran
\* every step.
C23_ShimStepOrder ==
    \A worker \in Workers :
        call[worker].shim # 0 =>
            /\ Len(call[worker].trace) <= Len(ShimSteps)
            /\ call[worker].trace = SubSeq(ShimSteps, 1, Len(call[worker].trace))
            /\ call[worker].at = "returned" =>
                   /\ call[worker].trace[Len(call[worker].trace)] \in {"import", "lookup"}
                          => IsTranslatedException(call[worker].result.val)
                   /\ (/\ call[worker].trace[Len(call[worker].trace)] = "invoke"
                       /\ ~unit.val.exported_functions[call[worker].shim].unit_body)
                          => IsTranslatedException(call[worker].result.val)
                   /\ call[worker].result.val.ok =>
                          call[worker].trace =
                              IF unit.val.exported_functions[call[worker].shim].unit_body
                              THEN SubSeq(ShimSteps, 1, 5)
                              ELSE ShimSteps

\* the lookup raised: the error of the exception after three steps
C23_Witness ==
    /\ call[1].at = "returned"
    /\ call[1].shim = 1
    /\ call[1].trace = <<"acquire", "import", "lookup">>
    /\ call[1].result = Some(Err(ModuleFnErr("AttributeError", "has no attribute")))

\* the call returned a value after all six steps
C23_WitnessValue ==
    /\ call[1].at = "returned"
    /\ call[1].shim = 1
    /\ call[1].trace = ShimSteps
    /\ call[1].result = Some(Ok(I64Value(1)))


(***************************************************************************)
(* Claims about the host namespace of the emitted unit (SpecProject)       *)
(***************************************************************************)
\* the namespaces of the host-function declarations of a suite, in the
\* order of the statements
RECURSIVE DeclaredInSuite(_)
DeclaredInSuite(suite) ==
    IF Len(suite) = 0 THEN <<>>
    ELSE IF /\ Head(suite).kind = "ClassDef"
            /\ CarriesMarker(Head(suite), "host_fns")
            /\ \E i \in 1..Len(Head(suite).body) :
                   /\ Head(suite).body[i].kind = "FunctionDef"
                   /\ CarriesMarker(Head(suite).body[i], "host_fn")
         THEN <<host_fns_namespace(Head(suite)).val>> \o DeclaredInSuite(Tail(suite))
         ELSE DeclaredInSuite(Tail(suite))

\* the same over the discovered source files under module_root, in the
\* order of their discovery
RECURSIVE DeclaredInFiles(_)
DeclaredInFiles(paths) ==
    IF Len(paths) = 0 THEN <<>>
    ELSE IF /\ extension(file_name(Head(paths))) = "py"
            /\ starts_with(Head(paths), context.val.val.module_root)
         THEN DeclaredInSuite(node_at(project.tree, Head(paths)).suite)
                  \o DeclaredInFiles(Tail(paths))
         ELSE DeclaredInFiles(Tail(paths))

\* C24: when host functions are declared more than once, in one file or in
\* several, the namespace of the first discovered declaration is the one of
\* the host-function bridge and of the initialization hook; with no
\* declaration the bridge is not emitted.
C24_FirstNamespaceWins ==
    pc = "generated" =>
        IF Len(DeclaredInFiles(files)) = 0
        THEN ~unit.val.host_functions.some
        ELSE /\ unit.val.host_functions.some
             /\ unit.val.host_functions.val.namespace = DeclaredInFiles(files)[1]
             /\ unit.val.initialize.namespace = DeclaredInFiles(files)[1]


(***************************************************************************)
(* Files whose marked declarations are nested in other statements          *)
(***************************************************************************)
UnmarkedFunction(name, body) ==
    FunctionDef(name, <<>>, <<>>, NoneOpt, body)

NestedStatements ==
    {ValidFunction("g"),
     NoReturnFunction("g"),
     ValidClass("ns", <<"h">>),
     ClassDef("Host", <<HostFnsMarker("ns")>>, <<PassStmt>>),
     ClassDef("Host", <<HostFnsMarker("ns")>>, <<ValidFunction("f")>>),
     ClassDef("Host", <<Name("host_fns")>>, <<ValidMethod("h")>>),
     PassStmt,
     UnmarkedFunction("outer", <<ValidFunction("inner")>>),
     UnmarkedFunction("outer", <<ValidClass("ns", <<"h">>)>>),
     FunctionDef("outer", <<ModFnMarker>>, <<>>, Some(Name("int")),
                 <<ValidFunction("inner")>>),
     IfStmt(<<ValidFunction("f")>>),
     IfStmt(<<ValidClass("ns", <<"h">>)>>),
     ClassDef("Plain", <<>>, <<ValidFunction("f")>>),
     ClassDef("Plain", <<>>, <<ValidMethod("h")>>),
     ClassDef("Plain", <<>>, <<ValidClass("ns", <<"h">>)>>)}

NestedSuites ==
    {<<>>} \cup {<<s>> : s \in NestedStatements}
    \cup {<<s, t>> : s \in NestedStatements, t \in NestedStatements}

InitNested ==
    /\ pc = "start"
    /\ file \in {SourceFile(<<"proj", "pkg", "util.py">>, TRUE, suite) :
                     suite \in NestedSuites}
    /\ analysis = NoneOpt
    /\ RuntimeUnused
    /\ ResolveUnused
    /\ MarshalUnused
    /\ ProjectUnused

SpecNested == InitNested /\ [][NextAnalyze]_vars

\* the positions of the marked functions among the top-level statements
TopMarkedFunctions(suite) ==
    {i \in 1..Len(suite) :
        suite[i].kind = "FunctionDef" /\ CarriesMarker(suite[i], "mod_fn")}

\* the positions of the marked classes among the top-level statements
TopMarkedClasses(suite) ==
    {i \in 1..Len(suite) :
        suite[i].kind = "ClassDef" /\ CarriesMarker(suite[i], "host_fns")}

\* those of them that hold at least one marked method
TopDeclaringClasses(suite) ==
    {i \in TopMarkedClasses(suite) :
        \E j \in 1..Len(suite[i].body) :
            /\ suite[i].body[j].kind = "FunctionDef"
            /\ CarriesMarker(suite[i].body[j], "host_fn")}

\* a statement other than a marked function or a marked class whose body
\* holds a marked function or a marked class with a marked method
HidesMarked(stmt) ==
    /\ stmt.kind \in {"FunctionDef", "ClassDef", "If"}
    /\ stmt.kind = "FunctionDef" => ~CarriesMarker(stmt, "mod_fn")
    /\ stmt.kind = "ClassDef" => ~CarriesMarker(stmt, "host_fns")
    /\ \/ TopMarkedFunctions(stmt.body) # {}
       \/ TopDeclaringClasses(stmt.body) # {}

\* C25: whenever analyze_file succeeds, it returns a Module exactly when the
\* file holds at least one marked top-level function or at least one marked
\* top-level class with at least one marked method, and none otherwise; the
\* Module holds one function per marked top-level function, so marked
\* declarations nested in a function, a conditional or an unmarked class
\* contribute nothing.
C25_ModuleExactlyWhenDeclared ==
    (pc = "done" /\ analysis.val.ok) =>
        /\ analysis.val.val.some <=>
              \/ TopMarkedFunctions(file.suite) # {}
              \/ TopDeclaringClasses(file.suite) # {}
        /\ analysis.val.val.some =>
              /\ Len(analysis.val.val.val.module_functions)
                     = Cardinality(TopMarkedFunctions(file.suite))
              /\ analysis.val.val.val.host_functions.some
                     <=> TopDeclaringClasses(file.suite) # {}

\* an unmarked function, a conditional and an unmarked class that hold marked
\* declarations: each alone gives none
C25_Witness ==
    /\ pc = "done"
    /\ Len(file.suite) = 1
    /\ HidesMarked(file.suite[1])
    /\ file.suite[1].kind = "If"
    /\ analysis = Some(Ok(NoneOpt))

C25_WitnessFunction ==
    /\ pc = "done"
    /\ Len(file.suite) = 2
    /\ HidesMarked(file.suite[1]) /\ file.suite[1].kind = "FunctionDef"
    /\ HidesMarked(file.suite[2]) /\ file.suite[2].kind = "ClassDef"
    /\ analysis = Some(Ok(NoneOpt))

C25_WitnessModule ==
    /\ pc = "done"
    /\ file.suite = <<IfStmt(<<ValidFunction("f")>>), ValidFunction("g")>>
    /\ analysis.val.ok /\ analysis.val.val.some
    /\ Len(analysis.val.val.val.module_functions) = 1

\* the statement with every marked top-level class counted: whenever
\* analyze_file succeeds, it returns a Module exactly when the file holds a
\* marked top-level function or a marked top-level class
C25_ModuleExactlyWhenMarked ==
    (pc = "done" /\ analysis.val.ok) =>
        (analysis.val.val.some <=>
            \/ TopMarkedFunctions(file.suite) # {}
            \/ TopMarkedClasses(file.suite) # {})


(***************************************************************************)
(* Claims about the source bundle of the emitted unit (SpecImport)         *)
(***************************************************************************)
\* the dotted path of a file relative to the first directory frozen into the
\* unit as the project's source bundle
BundlePath(file_path) ==
    Dotted(Head(DottedComponents(file_path, unit.val.globals.frozen_dirs[1])),
           Tail(DottedComponents(file_path, unit.val.globals.frozen_dirs[1])))

\* C26: for every Module of a generated context, the import path its shims
\* use equals the dotted path of the Module's file relative to the directory
\* embedded as the source bundle, the parent of module_root, for package
\* layouts and for single-file modules resolved through a module-name hint.
C26_ShimTargetImportable ==
    pc = "generated" =>
        /\ unit.val.globals.frozen_dirs[1] = parent(context.val.val.module_root)
        /\ \A i \in 1..Len(context.val.val.modules) :
               \A k \in 1..Len(context.val.val.modules[i].module_functions) :
                   \A shim \in SeqRange(unit.val.exported_functions) :
                       shim.mod_fn_name
                           = context.val.val.modules[i].module_functions[k].name
                       => shim.import_path
                              = BundlePath(context.val.val.modules[i].file_path)


(***************************************************************************)
(* Claims about the items of the emitted unit (SpecProject)                *)
(***************************************************************************)
\* C27: every item the interpreter bootstrap refers to is defined in the
\* unit: whenever the bootstrap registers the native capability module
\* hostfns, the definition of that module is emitted too, also when no Module
\* of the context declares host functions.
C27_UnitIsClosed ==
    pc = "generated" =>
        ("hostfns" \in unit.val.globals.native_modules
             => unit.val.host_functions.some)

\* the exported name of the initialization hook
InitializeName == "initialize"

\* C28: no two shims of an emitted unit have the same native identifier or
\* the same exported name, and no shim has the exported name of the
\* initialization hook.
C28_UniqueNames ==
    pc = "generated" =>
        /\ \A i, k \in 1..Len(unit.val.exported_functions) :
               i # k =>
                   /\ unit.val.exported_functions[i].fn_impl_name
                          # unit.val.exported_functions[k].fn_impl_name
                   /\ unit.val.exported_functions[i].mod_fn_name
                          # unit.val.exported_functions[k].mod_fn_name
        /\ \A i \in 1..Len(unit.val.exported_functions) :
               unit.val.exported_functions[i].mod_fn_name # InitializeName


(***************************************************************************)
(* Claims about the environment directory in discovery (SpecLayout)        *)
(***************************************************************************)
\* the package-init files of the project that lie outside the resolved
\* environment directory
ProjectInitFiles ==
    {n.path : n \in {m \in project.tree :
        /\ m.kind = "file"
        /\ file_name(m.path) = "__init__.py"
        /\ starts_with(m.path, project.project_dir)
        /\ ~starts_with(m.path, EnvironmentDir.val)}}

\* C29: in a flat layout without hints, with the environment in venv, .venv,
\* env or .env and exactly one project package directory holding a
\* package-init file, resolution succeeds with that package: the files
\* inside the environment directory are never module candidates.
C29_EnvironmentNeverCompetes ==
    \A d \in {"pkg", "other"} :
        (/\ Parsed
         /\ NoHints
         /\ Dir(project.project_dir \o <<"src">>) \notin project.tree
         /\ ValidEnvironment
         /\ \E i \in 1..Len(VenvNames) :
                EnvironmentDir.val = project.project_dir \o <<VenvNames[i]>>
         /\ ProjectInitFiles = {project.project_dir \o <<d, "__init__.py">>})
        => /\ context.val.ok
           /\ context.val.val.module_root = project.project_dir \o <<d>>
           /\ context.val.val.module_name = d


(***************************************************************************)
(* Claims about the emitted native types (SpecMarshal)                     *)
(***************************************************************************)
\* the ParameterTypes that hold Any somewhere
RECURSIVE HoldsAny(_)
HoldsAny(pt) ==
    CASE pt.t = "Any" -> TRUE
      [] pt.t = "List" -> HoldsAny(pt.item)
      [] pt.t = "Tuple" -> \E i \in 1..Len(pt.items) : HoldsAny(pt.items[i])
      [] pt.t = "Map" -> HoldsAny(pt.key_type) \/ HoldsAny(pt.value_type)
      [] pt.t = "Optional" -> HoldsAny(pt.inner)
      [] OTHER -> FALSE

\* the Tuples of fewer than two items somewhere in a ParameterType
RECURSIVE HoldsShortTuple(_)
HoldsShortTuple(pt) ==
    CASE pt.t = "List" -> HoldsShortTuple(pt.item)
      [] pt.t = "Tuple" ->
            \/ Len(pt.items) < 2
            \/ \E i \in 1..Len(pt.items) : HoldsShortTuple(pt.items[i])
      [] pt.t = "Map" -> HoldsShortTuple(pt.key_type) \/ HoldsShortTuple(pt.value_type)
      [] pt.t = "Optional" -> HoldsShortTuple(pt.inner)
      [] OTHER -> FALSE

\* C30: the native type emitted for a Tuple of n items is a tuple type of
\* exactly n components, for every n >= 0, and structurally different
\* ParameterTypes without Any are emitted as different native types.
C30_TupleArity ==
    /\ ptype.t = "Tuple" =>
           /\ as_token_stream(ptype).n = "tuple"
           /\ Len(as_token_stream(ptype).items) = Len(ptype.items)
    /\ \A other \in MarshalTypes :
           (other # ptype /\ ~HoldsAny(other) /\ ~HoldsAny(ptype))
               => as_token_stream(other) # as_token_stream(ptype)

====
